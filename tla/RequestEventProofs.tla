------------------------- MODULE RequestEventProofs -------------------------
(***************************************************************************)
(* Proofs about DrbdRequest, second part: acks, lost connections, the      *)
(* backing device, state changes and new requests keep EpochInv.           *)
(***************************************************************************)
EXTENDS RequestStepProofs, TLAPS

LEMMA AckDropped ==
  ASSUME MentionInv, NEW p \in Peers, ctl[p] # <<>>, DropAck(p)
  PROVE  /\ ctl' \in [Peers -> Seq(Acks)]
         /\ Head(ctl[p]).type # "barrier" => Head(ctl[p]).req \in Known
<1>1. ctl \in [Peers -> Seq(Acks)]
  BY MentionTypes
<1>2. ctl' \in [Peers -> Seq(Acks)] /\ Head(ctl[p]) \in Acks
  BY <1>1, SequenceMoves, Zenon DEF DropAck
<1> DEFINE m == Head(ctl[p])
<1> HIDE DEF m
<1>3. m \in Acks => (m.type # "barrier" => m.req \in Known)
  BY SMT DEF Acks
<1>4. QED
  BY <1>2, <1>3 DEF m

LEMMA AbortModInv ==
  ASSUME EpochInv, AbortMod
  PROVE  EpochInv'
<1> MentionInv
  BY DEF EpochInv
<1>1. UNCHANGED <<dagtag_sector, sub, prepared, snd, netVars, connVars, disk_io>>
  BY DEF AbortMod
<1>2. budget' = budget
  BY <1>1 DEF connVars
<1>3. CASE abort.req \in transfer_log
  <2>1. mod_local(AbortWorker, abort.req, {}, {"LOCAL_ABORTED"})
    BY <1>3 DEF AbortMod
  <2>2. {"LOCAL_ABORTED"} \in SUBSET LocalFlags
    BY FlagSetTypes, Zenon
  <2>3. abort.req \in Known /\ disk_io' \subseteq Known
    BY <1>1, <1>3, MentionTypes, Zenon
  <2>4. MentionInv'
    BY <1>1, <2>1, <2>3, LocalMention
  <2>5. QED
    BY <1>1, <1>2, <2>1, <2>2, <2>3, <2>4, LocalMod, Zenon
<1>4. CASE abort.req \notin transfer_log
  <2>1. UNCHANGED rsVars
    BY <1>4 DEF AbortMod
  <2>2. MentionInv'
    BY <1>1, <2>1, MentionSame, Zenon DEF mentionVars, rsVars, netVars, logVars, ptrVars
  <2>3. QED
    BY <1>1, <1>2, <2>1, <2>2, BudgetTyped, EnvInv, Zenon
<1>5. QED
  BY <1>3, <1>4

\* A walk over the transfer log comes to requests that have their epoch.
LEMMA MinKnown ==
  ASSUME LeastExists, MentionInv, NEW S, S \subseteq transfer_log, S # {}
  PROVE  Min(S) \in Known
<1>1. S \subseteq Known
  BY MentionTypes, Zenon
<1>2. S \subseteq Reqs
  BY <1>1, Zenon DEF Known
<1>3. Min(S) \in S
  BY <1>2 DEF LeastExists
<1>4. QED
  BY <1>1, <1>3

\* tl_release(), tl_walk() and finish_state_change() apply an event to the next
\* request of their walk, or come to its end.
LEMMA WalkEventInv ==
  ASSUME EpochInv, UNCHANGED <<dagtag_sector, sub, prepared, snd, netVars, budget, diskVars>>,
         NEW a, NEW r \in Known, NEW p,
         \/ \E set \in NetFlagSets : \E clear : mod_net(a, r, p, clear, set)
         \/ \E set \in {{}, {"COMPLETION_SUSP"}} : \E clear : mod_local(a, r, clear, set)
  PROVE  EpochInv'
<1> MentionInv
  BY DEF EpochInv
<1>1. /\ disk_io' \subseteq Known /\ snd' \in [Peers -> SndType] /\ (\A q \in Peers : SndGood(snd'[q]))
      /\ wire' \in [Peers -> Seq(Packets)] /\ ctl' \in [Peers -> Seq(Acks)]
      /\ replies' \in [Peers -> Seq(Answers)] /\ peer' \in [Peers -> PeerType]
  BY MentionTypes DEF diskVars, netVars
<1>2. ASSUME NEW set \in NetFlagSets, NEW clear, mod_net(a, r, p, clear, set)
      PROVE  EpochInv'
  <2>1. MentionInv'
    BY <1>1, <1>2, NetMention, Zenon
  <2>2. set \in SUBSET NetFlags
    BY <1>2, FlagSetTypes
  <2>3. QED
    BY <1>2, <2>1, <2>2, NetMod, Zenon
<1>3. ASSUME NEW set \in {{}, {"COMPLETION_SUSP"}}, NEW clear, mod_local(a, r, clear, set)
      PROVE  EpochInv'
  <2>1. MentionInv'
    BY <1>1, <1>3, LocalMention
  <2>2. set \in SUBSET LocalFlags
    BY <1>3, FlagSetTypes, Zenon
  <2>3. QED
    BY <1>3, <2>1, <2>2, LocalMod, Zenon
<1>4. QED
  BY <1>2, <1>3

LEMMA WalkEndInv ==
  ASSUME EpochInv, UNCHANGED rsVars, UNCHANGED <<dagtag_sector, sub, prepared, snd, netVars, budget, diskVars>>
  PROVE  EpochInv'
<1>1. MentionInv'
  BY MentionSame, Zenon DEF EpochInv, mentionVars, rsVars, netVars, logVars, ptrVars, diskVars
<1>2. QED
  BY <1>1, BudgetTyped, EnvInv

\* The connection goes down.
LEMMA DisconnectStepInv ==
  ASSUME LeastExists, EpochInv, NEW p \in Peers, DisconnectStep(p)
  PROVE  EpochInv'
<1>1. CASE ShutDown(p)
  <2> USE <1>1
  <2> MentionInv
    BY DEF EpochInv
  <2>1. /\ UNCHANGED <<rsVars, dagtag_sector, sub, prepared, snd, peer, budget, diskVars>>
        /\ wire' = [wire EXCEPT ![p] = <<>>] /\ ctl' = [ctl EXCEPT ![p] = <<>>]
        /\ replies' = [replies EXCEPT ![p] = <<>>]
    BY Zenon DEF ShutDown
  <2>2. /\ wire \in [Peers -> Seq(Packets)] /\ ctl \in [Peers -> Seq(Acks)]
        /\ replies \in [Peers -> Seq(Answers)]
    BY MentionTypes
  <2>3. wire' \in [Peers -> Seq(Packets)]
    BY <2>1, <2>2, SequenceMoves, Zenon
  <2>4. ctl' \in [Peers -> Seq(Acks)]
    BY <2>1, <2>2, SequenceMoves, Zenon
  <2>5. replies' \in [Peers -> Seq(Answers)]
    BY <2>1, <2>2, SequenceMoves, Zenon
  <2>6. MentionInv'
    BY <2>1, <2>3, <2>4, <2>5, MentionTo, MentionTypes, Zenon DEF rsVars, logVars, ptrVars, diskVars
  <2>7. QED
    BY <2>1, <2>6, BudgetTyped, EnvInv, Zenon
<1>2. CASE DisconnectDone(p)
  <2> USE <1>2
  <2> DEFINE x == [snd[p] EXCEPT !.seen_any_write_yet = FALSE]
  <2> MentionInv
    BY DEF EpochInv
  <2>1. /\ UNCHANGED <<rsVars, dagtag_sector, sub, prepared, netVars, budget, diskVars>>
        /\ snd' = [snd EXCEPT ![p] = x]
    BY Zenon DEF DisconnectDone
  <2>2. snd[p] \in SndType /\ SndGood(snd[p]) /\ FALSE \in BOOLEAN
    BY MentionTypes
  <2>3. x \in SndType
    BY <2>2, SndFields, Zenon
  <2>4. x.pc = snd[p].pc /\ x.req = snd[p].req
    BY <2>2, SMT DEF SndType
  <2> HIDE DEF x
  <2>5. SndGood(x)
    BY <2>2, <2>3, <2>4, Zenon DEF SndGood
  <2>6. snd' \in [Peers -> SndType] /\ \A q \in Peers : SndGood(snd'[q])
    BY <2>1, <2>5, SndMoves, Zenon
  <2>7. MentionInv'
    BY <2>1, <2>6, MentionTo, MentionTypes, Zenon DEF rsVars, logVars, ptrVars, diskVars, netVars
  <2>8. QED
    BY <2>1, <2>7, BudgetTyped, EnvInv, Zenon
<1>3. CASE ConnectionLost(p)
  <2> USE <1>3
  <2> DEFINE S == LostTargets(p)
  <2> MentionInv
    BY DEF EpochInv
  <2>1. UNCHANGED <<dagtag_sector, sub, prepared, snd, netVars, budget, diskVars>> /\ S # {}
    BY DEF ConnectionLost
  <2>2. S \subseteq transfer_log
    BY DEF LostTargets
  <2>3. \/ mod_net(Receiver(p), Min(S), p, {"PENDING", "OK"}, {"DONE"})
        \/ mod_local(Receiver(p), Min(S), {}, {"COMPLETION_SUSP"})
    BY Zenon DEF ConnectionLost
  <2>4. Min(S) \in Known
    BY <2>1, <2>2, MinKnown
  <2> HIDE DEF S
  <2>5. \/ \E set \in NetFlagSets : \E clear : mod_net(Receiver(p), Min(S), p, clear, set)
        \/ \E set \in {{}, {"COMPLETION_SUSP"}} : \E clear : mod_local(Receiver(p), Min(S), clear, set)
    BY <2>3, Zenon DEF NetFlagSets
  <2>6. QED
    BY <2>1, <2>4, <2>5, WalkEventInv, Zenon
<1>4. QED
  BY <1>1, <1>2, <1>3 DEF DisconnectStep

\* The answers of the peer are applied.
LEMMA AckStepInv ==
  ASSUME LeastExists, EpochInv, NEW p \in Peers, AckStep(p)
  PROVE  EpochInv'
<1>1. CASE GotBarrierAck(p)
  <2> USE <1>1
  <2> MentionInv
    BY DEF EpochInv
  <2>1. /\ UNCHANGED <<rsVars, dagtag_sector, sub, prepared, snd, wire, replies, peer, budget, diskVars>>
        /\ ctl[p] # <<>> /\ DropAck(p)
    BY Zenon DEF GotBarrierAck, AckHead
  <2>2. ctl' \in [Peers -> Seq(Acks)]
    BY <2>1, AckDropped
  <2>3. MentionInv'
    BY <2>1, <2>2, MentionTo, MentionTypes, Zenon DEF rsVars, logVars, ptrVars, diskVars
  <2>4. QED
    BY <2>1, <2>3, BudgetTyped, EnvInv, Zenon
<1>2. CASE GotBlockAck(p)
  <2> USE <1>2
  <2> DEFINE m == Head(ctl[p])
             r == m.req
             set == {"OK"} \cup IF m.type = "sis" THEN {"SIS"} ELSE {}
  <2> MentionInv
    BY DEF EpochInv
  <2>1. /\ UNCHANGED <<dagtag_sector, sub, prepared, snd, wire, replies, peer, connVars, diskVars>>
        /\ ctl[p] # <<>> /\ m.type \in {"write", "sis", "recv"} /\ DropAck(p)
        /\ mod_net(AckReceiver(p), r, p, {"PENDING"}, set)
    BY Zenon DEF GotBlockAck, AckHead
  <2>2. ctl' \in [Peers -> Seq(Acks)] /\ r \in Known
    BY <2>1, AckDropped
  <2>3. set \in SUBSET NetFlags
    BY SMT DEF NetFlags, NET_MASK
  <2> HIDE DEF set, r, m
  <2>4. /\ disk_io' \subseteq Known /\ snd' \in [Peers -> SndType] /\ (\A q \in Peers : SndGood(snd'[q]))
        /\ wire' \in [Peers -> Seq(Packets)]
        /\ replies' \in [Peers -> Seq(Answers)] /\ peer' \in [Peers -> PeerType]
    BY <2>1, MentionTypes DEF diskVars
  <2>5. MentionInv'
    BY <2>1, <2>2, <2>4, NetMention, Zenon
  <2>6. budget' = budget
    BY <2>1, Zenon DEF connVars
  <2>7. QED
    BY <2>1, <2>2, <2>3, <2>5, <2>6, NetMod, Zenon
<1>3. CASE GotNegAck(p)
  <2> USE <1>3
  <2> DEFINE r == Head(ctl[p]).req
  <2> MentionInv /\ ShapeInv
    BY DEF EpochInv
  <2>1. /\ UNCHANGED <<dagtag_sector, sub, prepared, snd, wire, replies, peer, connVars, diskVars>>
        /\ ctl[p] # <<>> /\ Head(ctl[p]).type = "neg" /\ DropAck(p)
        /\ \/ mod_net(AckReceiver(p), r, p, {"OK", "PENDING"}, {})
           \/ UNCHANGED <<modRest, flagVars, tleVars, owe>>
    BY Zenon DEF GotNegAck, AckHead
  <2>2. ctl' \in [Peers -> Seq(Acks)] /\ r \in Known
    BY <2>1, AckDropped
  <2>3. {} \in SUBSET NetFlags
    OBVIOUS
  <2> HIDE DEF r
  <2>4. /\ disk_io' \subseteq Known /\ snd' \in [Peers -> SndType] /\ (\A q \in Peers : SndGood(snd'[q]))
        /\ wire' \in [Peers -> Seq(Packets)]
        /\ replies' \in [Peers -> Seq(Answers)] /\ peer' \in [Peers -> PeerType]
    BY <2>1, MentionTypes, Zenon DEF diskVars
  <2>5. budget' = budget
    BY <2>1, Zenon DEF connVars
  <2>6. CASE mod_net(AckReceiver(p), r, p, {"OK", "PENDING"}, {})
    <3>1. MentionInv'
      BY <2>2, <2>4, <2>6, NetMention, Zenon
    <3>2. QED
      BY <2>1, <2>2, <2>3, <2>5, <2>6, <3>1, NetMod, Zenon
  <2>7. CASE UNCHANGED <<modRest, flagVars, tleVars, owe>>
    <3>1. UNCHANGED <<req, req_next, transfer_log, master_bio, flagVars, next_write, owe, sub, prepared,
                      dagtag_sector, retry_writes, suspended_reqs>> /\ TleStep
      BY <2>1, <2>7, Zenon DEF modRest, bioVars, logVars, retryVars, TleStep
    <3>2. transfer_log' \subseteq Known /\ req_next' \in [Peers -> Known \cup {NoReq}]
      BY <3>1, MentionTypes, Zenon
    <3>3. MentionInv'
      BY <2>2, <2>4, <3>1, <3>2, MentionTo, Zenon
    <3>4. retry_writes' \subseteq Reqs /\ suspended_reqs' \subseteq Reqs
      BY <3>1 DEF ShapeInv
    <3>5. QED
      BY <2>5, <3>1, <3>3, <3>4, BudgetTyped, Quiet, Zenon DEF BudgetType
  <2>8. QED
    BY <2>1, <2>6, <2>7, Zenon
<1>4. CASE BarrierAcked(p)
  <2> USE <1>4
  <2> DEFINE S == BarrierAckedTargets(p)
  <2> MentionInv
    BY DEF EpochInv
  <2>1. UNCHANGED <<dagtag_sector, sub, prepared, snd, netVars, budget, diskVars>>
    BY DEF BarrierAcked
  <2>2. S \subseteq transfer_log
    BY DEF BarrierAckedTargets
  <2>3. CASE S = {}
    BY <2>1, <2>3, WalkEndInv, Zenon DEF BarrierAcked
  <2>4. CASE S # {}
    <3>1. \/ mod_net(AckReceiver(p), Min(S), p, {"PENDING"}, {"OK", "DONE"})
          \/ mod_net(AckReceiver(p), Min(S), p, {}, {"DONE"})
      BY <2>4, Zenon DEF BarrierAcked
    <3>2. \E set \in NetFlagSets : \E clear : mod_net(AckReceiver(p), Min(S), p, clear, set)
      BY <3>1, Zenon DEF NetFlagSets
    <3>3. Min(S) \in Known
      BY <2>2, <2>4, MinKnown, Zenon
    <3>4. QED
      BY <2>1, <3>2, <3>3, WalkEventInv, Zenon
  <2>5. QED
    BY <2>3, <2>4
<1>5. CASE GotReadReply(p)
  <2> USE <1>5
  <2> DEFINE m == Head(replies[p])
             r == m.req
  <2> MentionInv
    BY DEF EpochInv
  <2>1. /\ UNCHANGED <<dagtag_sector, sub, prepared, snd, wire, ctl, peer, connVars, diskVars>>
        /\ replies[p] # <<>> /\ replies' = [replies EXCEPT ![p] = Tail(@)]
        /\ \/ mod_net(Receiver(p), r, p, {"PENDING"}, {"OK", "DONE"})
           \/ mod_net(Receiver(p), r, p, {"OK", "PENDING"}, {"DONE"})
    BY Zenon DEF GotReadReply
  <2>2. replies' \in [Peers -> Seq(Answers)] /\ r \in Known
    <3>1. replies \in [Peers -> Seq(Answers)]
      BY MentionTypes
    <3>2. replies' \in [Peers -> Seq(Answers)] /\ m \in Answers
      BY <2>1, <3>1, SequenceMoves, Zenon
    <3> HIDE DEF m
    <3>3. m.req \in Known
      BY <3>2, SMT DEF Answers
    <3>4. QED
      BY <3>2, <3>3
  <2>3. {"OK", "DONE"} \in SUBSET NetFlags /\ {"DONE"} \in SUBSET NetFlags
    BY FlagSetTypes, Zenon DEF NetFlagSets
  <2> HIDE DEF r, m
  <2>4. /\ disk_io' \subseteq Known /\ snd' \in [Peers -> SndType] /\ (\A q \in Peers : SndGood(snd'[q]))
        /\ wire' \in [Peers -> Seq(Packets)] /\ ctl' \in [Peers -> Seq(Acks)] /\ peer' \in [Peers -> PeerType]
    BY <2>1, MentionTypes DEF diskVars
  <2>5. budget' = budget
    BY <2>1 DEF connVars
  <2>6. MentionInv'
    BY <2>1, <2>2, <2>4, NetMention, Zenon
  <2>7. CASE mod_net(Receiver(p), r, p, {"PENDING"}, {"OK", "DONE"})
    BY <2>1, <2>2, <2>3, <2>5, <2>6, <2>7, NetMod, Zenon
  <2>8. CASE mod_net(Receiver(p), r, p, {"OK", "PENDING"}, {"DONE"})
    BY <2>1, <2>2, <2>3, <2>5, <2>6, <2>8, NetMod, Zenon
  <2>9. QED
    BY <2>1, <2>7, <2>8, Zenon
<1>6. QED
  BY <1>1, <1>2, <1>3, <1>4, <1>5, Zenon DEF AckStep

(***************************************************************************)
(* State changes.                                                          *)
(***************************************************************************)
LEMMA StateChangeInv ==
  ASSUME EpochInv, TleStep,
         UNCHANGED <<req, bioVars, flagVars, logVars, ptrVars, owe, dagtag_sector, sub, prepared, snd, disk_io,
                     wire, ctl, replies>>,
         UNCHANGED retryVars \/ (retry_writes' = retry_writes \cup suspended_reqs /\ suspended_reqs' = {}),
         peer' \in [Peers -> PeerType],
         \/ budget' = budget
         \/ \E n \in Int : \/ budget' = [budget EXCEPT !.loss = n]
                           \/ budget' = [budget EXCEPT !.mode = n]
                           \/ budget' = [budget EXCEPT !.disk = n]
  PROVE  EpochInv'
<1> MentionInv /\ ShapeInv
  BY DEF EpochInv
<1>1. UNCHANGED <<transfer_log, req_next, master_bio, next_write>>
  BY DEF logVars, ptrVars, bioVars
<1>2. MentionInv'
  <2>1. /\ transfer_log' \subseteq Known /\ disk_io' \subseteq Known
        /\ req_next' \in [Peers -> Known \cup {NoReq}]
        /\ wire' \in [Peers -> Seq(Packets)] /\ ctl' \in [Peers -> Seq(Acks)]
        /\ replies' \in [Peers -> Seq(Answers)]
        /\ snd' \in [Peers -> SndType] /\ \A p \in Peers : SndGood(snd'[p])
    BY <1>1, MentionTypes
  <2>2. QED
    BY <2>1, MentionTo, Zenon
<1>3. retry_writes' \subseteq Reqs /\ suspended_reqs' \subseteq Reqs
  BY Zenon DEF ShapeInv, retryVars
<1>4. budget' \in BudgetType /\ budget'.reqs = budget.reqs
  <2>1. ASSUME NEW n \in Int,
               \/ budget' = [budget EXCEPT !.loss = n]
               \/ budget' = [budget EXCEPT !.mode = n]
               \/ budget' = [budget EXCEPT !.disk = n]
        PROVE  budget' \in BudgetType /\ budget'.reqs = budget.reqs
    <3>1. budget \in BudgetType
      BY BudgetTyped
    <3>2. /\ [budget EXCEPT !.loss = n] \in BudgetType /\ [budget EXCEPT !.loss = n].reqs = budget.reqs
          /\ [budget EXCEPT !.mode = n] \in BudgetType /\ [budget EXCEPT !.mode = n].reqs = budget.reqs
          /\ [budget EXCEPT !.disk = n] \in BudgetType /\ [budget EXCEPT !.disk = n].reqs = budget.reqs
      BY <2>1, <3>1, BudgetFields, ZenonT(30)
    <3>3. QED
      BY <2>1, <3>2, Zenon
  <2>2. QED
    BY <2>1, BudgetTyped
<1>5. QED
  BY <1>1, <1>2, <1>3, <1>4, Quiet, Zenon DEF BudgetType

LEMMA PeerUnchanged ==
  ASSUME EpochInv, UNCHANGED peer
  PROVE  peer' \in [Peers -> PeerType]
BY MentionTypes, Zenon DEF EpochInv

\* State changes and the walks of the transfer log they start.
LEMMA StateStepInv ==
  ASSUME LeastExists, EpochInv, StateStep
  PROVE  EpochInv'
<1>1. ASSUME NEW w, StateWalk(w)
      PROVE  EpochInv'
  <2> USE <1>1
  <2> DEFINE S == WalkTargets(w)
  <2> MentionInv
    BY DEF EpochInv
  <2>1. UNCHANGED <<dagtag_sector, sub, prepared, snd, netVars, budget, diskVars>>
    BY DEF StateWalk
  <2>2. S \subseteq transfer_log
    BY Zenon DEF WalkTargets
  <2>3. CASE S = {}
    BY <2>1, <2>3, WalkEndInv, Zenon DEF StateWalk
  <2>4. CASE S # {}
    <3>1. WalkEvent(w, Min(S))
      BY <2>4 DEF StateWalk
    <3>2. Min(S) \in Known
      BY <2>2, <2>4, MinKnown
    <3> HIDE DEF S
    <3>3. \/ mod_local(StateChange, Min(S), {"COMPLETION_SUSP"}, {})
          \/ mod_net(StateChange, Min(S), w.peer, {"PENDING", "OK"}, {"DONE"})
          \/ mod_net(StateChange, Min(S), w.peer, {"PENDING"}, {"DONE"})
          \/ mod_net(StateChange, Min(S), w.peer, {"SENT"}, {"QUEUED"})
      BY <3>1, Zenon DEF WalkEvent
    <3>4. \/ \E set \in NetFlagSets : \E clear : mod_net(StateChange, Min(S), w.peer, clear, set)
          \/ \E set \in {{}, {"COMPLETION_SUSP"}} : \E clear : mod_local(StateChange, Min(S), clear, set)
      BY <3>3, Zenon DEF NetFlagSets
    <3>5. QED
      BY <2>1, <3>2, <3>4, WalkEventInv, Zenon
  <2>5. QED
    BY <2>3, <2>4, Zenon
<1>2. ASSUME NEW p \in Peers, LoseConnection(p)
      PROVE  EpochInv'
  <2> USE <1>2
  <2> DEFINE n == budget.loss - 1
  <2>1. /\ UNCHANGED <<req, bioVars, flagVars, logVars, ptrVars, owe, dagtag_sector, sub, prepared, snd, disk_io,
                       wire, ctl, replies, peer, retryVars>>
        /\ TleStep
    BY Zenon DEF LoseConnection, netVars, diskVars, EpochIfModeChanges, TleStep
  <2>2. budget' = budget \/ budget' = [budget EXCEPT !.loss = n]
    BY Zenon DEF LoseConnection
  <2>3. n \in Int
    BY BudgetTyped, SMT DEF BudgetType
  <2> HIDE DEF n
  <2>4. QED
    BY <2>1, <2>2, <2>3, PeerUnchanged, StateChangeInv, Zenon
<1>3. ASSUME NEW p \in Peers, NEW mode, NEW resume \in BOOLEAN, Reconnect(p, mode, resume)
      PROVE  EpochInv'
  <2> USE <1>3
  <2> DEFINE x == [peer[p] EXCEPT !.size = 0]
  <2>1. /\ UNCHANGED <<req, bioVars, flagVars, logVars, ptrVars, owe, dagtag_sector, sub, prepared, snd, disk_io,
                       wire, ctl, replies, budget>>
        /\ TleStep
        /\ UNCHANGED retryVars \/ (retry_writes' = retry_writes \cup suspended_reqs /\ suspended_reqs' = {})
        /\ peer' = [peer EXCEPT ![p] = x]
    BY Zenon DEF Reconnect, diskVars, EpochIfModeChanges, TleStep, RestartSuspended
  <2>2. peer \in [Peers -> PeerType] /\ 0 \in Int
    <3>1. peer \in [Peers -> PeerType]
      BY MentionTypes DEF EpochInv
    <3>2. 0 \in Int
      BY SMT
    <3>3. QED
      BY <3>1, <3>2, Zenon
  <2>3. x \in PeerType
    BY <2>2, PeerFields, Zenon
  <2>4. peer' \in [Peers -> PeerType]
    BY <2>1, <2>2, <2>3, Zenon
  <2>5. QED
    BY <2>1, <2>4, StateChangeInv, Zenon
<1>4. CASE Resume
  <2> USE <1>4
  <2>1. /\ UNCHANGED <<req, bioVars, flagVars, logVars, ptrVars, owe, dagtag_sector, sub, prepared, snd, disk_io,
                       wire, ctl, replies, budget, peer>>
        /\ TleStep
        /\ retry_writes' = retry_writes \cup suspended_reqs /\ suspended_reqs' = {}
    BY Zenon DEF Resume, diskVars, netVars, TleStep, RestartSuspended
  <2>2. QED
    BY <2>1, PeerUnchanged, StateChangeInv, Zenon
<1>5. ASSUME NEW p \in Peers, NEW mode, ChangeMode(p, mode)
      PROVE  EpochInv'
  <2> USE <1>5
  <2> DEFINE n == budget.mode - 1
  <2>1. /\ UNCHANGED <<req, bioVars, flagVars, logVars, ptrVars, owe, dagtag_sector, sub, prepared, snd, disk_io,
                       wire, ctl, replies, peer, retryVars>>
        /\ TleStep
        /\ budget' = [budget EXCEPT !.mode = n]
    BY Zenon DEF ChangeMode, netVars, diskVars, EpochIfModeChanges, TleStep
  <2>2. n \in Int
    BY BudgetTyped, SMT DEF BudgetType
  <2> HIDE DEF n
  <2>3. QED
    BY <2>1, <2>2, PeerUnchanged, StateChangeInv, Zenon
<1>6. CASE DiskFails
  <2> USE <1>6
  <2> DEFINE n == budget.disk - 1
  <2>1. /\ UNCHANGED <<req, bioVars, flagVars, logVars, ptrVars, owe, dagtag_sector, sub, prepared, snd, disk_io,
                       wire, ctl, replies, peer, retryVars>>
        /\ TleStep
        /\ budget' = [budget EXCEPT !.disk = n]
    BY Zenon DEF DiskFails, netVars, TleStep
  <2>2. n \in Int
    BY BudgetTyped, SMT DEF BudgetType
  <2> HIDE DEF n
  <2>3. QED
    BY <2>1, <2>2, PeerUnchanged, StateChangeInv, Zenon
<1>7. QED
  BY <1>1, <1>2, <1>3, <1>4, <1>5, <1>6, Zenon DEF StateStep

\* The backing device.
LEMMA DiskStepInv ==
  ASSUME EpochInv, DiskStep
  PROVE  EpochInv'
<1>1. CASE AbortCheck
  <2> USE <1>1
  <2>1. UNCHANGED <<rsVars, dagtag_sector, sub, prepared, snd, netVars, connVars, disk_io>>
    BY DEF AbortCheck
  <2>2. MentionInv'
    BY <2>1, MentionSame, Zenon DEF EpochInv, mentionVars, rsVars, netVars, logVars, ptrVars
  <2>3. budget' = budget
    BY <2>1, Zenon DEF connVars
  <2>4. QED
    BY <2>1, <2>2, <2>3, BudgetTyped, EnvInv, Zenon
<1>2. ASSUME NEW r \in Reqs, EndIoOk(r) \/ EndIoError(r)
      PROVE  EpochInv'
  <2> USE <1>2
  <2> DEFINE ok == {"LOCAL_COMPLETED", "LOCAL_OK"}
             err == {"LOCAL_COMPLETED"}
  <2> MentionInv
    BY DEF EpochInv
  <2>1. /\ \/ mod_local(EndIo(r), r, {"LOCAL_PENDING"}, ok)
           \/ mod_local(EndIo(r), r, {"LOCAL_PENDING"}, err)
        /\ r \in disk_io /\ disk_io' = disk_io \ {r}
        /\ UNCHANGED <<dagtag_sector, sub, prepared, snd, netVars, connVars>>
    BY Zenon DEF EndIoOk, EndIoError
  <2>2. ok \in SUBSET LocalFlags /\ err \in SUBSET LocalFlags
    BY FlagSetTypes, Zenon
  <2> HIDE DEF ok, err
  <2>3. r \in Known /\ disk_io' \subseteq Known
    BY <2>1, MentionTypes, Zenon
  <2>4. budget' = budget
    BY <2>1 DEF connVars
  <2>5. MentionInv'
    BY <2>1, <2>3, LocalMention, Zenon
  <2>6. QED
    BY <2>1, <2>2, <2>3, <2>4, <2>5, LocalMod, Zenon
<1>3. CASE GoDiskless
  <2> USE <1>3
  <2>1. /\ UNCHANGED <<req, bioVars, flagVars, logVars, ptrVars, owe, dagtag_sector, sub, prepared, snd, disk_io,
                       wire, ctl, replies, peer, retryVars, budget>>
        /\ TleStep
    BY Zenon DEF GoDiskless, netVars, TleStep, envVars, diskVars, connVars
  <2>2. QED
    BY <2>1, PeerUnchanged, StateChangeInv, Zenon
<1>4. QED
  BY <1>1, <1>2, <1>3, Zenon DEF DiskStep

(***************************************************************************)
(* drbd_send_and_submit().                                                 *)
(***************************************************************************)
\* What the counting of requests needs to know of finite sets.
CountingFacts ==
    /\ \A S \in SUBSET Reqs : IsFiniteSet(S)
    /\ \A S : IsFiniteSet(S) =>
         /\ Cardinality(S) \in Nat
         /\ \A x : /\ IsFiniteSet(S \cup {x})
                   /\ Cardinality(S \cup {x}) = IF x \in S THEN Cardinality(S) ELSE Cardinality(S) + 1
                   /\ IsFiniteSet(S \ {x})
                   /\ Cardinality(S \ {x}) = IF x \in S THEN Cardinality(S) - 1 ELSE Cardinality(S)

LEMMA AllocatedFinite ==
  ASSUME CountingFacts
  PROVE  IsFiniteSet(Allocated) /\ Cardinality(Allocated) \in Nat
<1>1. Allocated \in SUBSET Reqs
  BY DEF Allocated
<1>2. IsFiniteSet(Allocated)
  BY <1>1, Zenon DEF CountingFacts
<1>3. QED
  BY <1>2, Zenon DEF CountingFacts

LEMMA NewReqFresh ==
  ASSUME CountingFacts, EpochInv, NEW q \in prepared
  PROVE  /\ NewReq \in Reqs /\ NewReq \notin Allocated /\ NewReq # NoReq
         /\ NewReq = Cardinality(Allocated) + 1
         /\ IsFiniteSet(prepared \ {q})
         /\ Cardinality(prepared \ {q}) + NewReq <= budget.reqs
<1> DEFINE n == Cardinality(Allocated)
           k == Cardinality(prepared)
<1>1. IsFiniteSet(prepared) /\ Allocated = 1 .. n /\ k + n <= budget.reqs
  BY DEF EpochInv, AllocInv
<1>2. n \in Nat /\ k \in Nat
  BY <1>1, AllocatedFinite, Zenon DEF CountingFacts
<1>3. budget.reqs \in 0 .. MaxReqs /\ MaxReqs \in Nat
  BY MaxReqsAssumption, Zenon DEF EpochInv, ShapeInv
<1>4. IsFiniteSet(prepared \ {q}) /\ Cardinality(prepared \ {q}) = k - 1
  BY <1>1, Zenon DEF CountingFacts
<1>5. Cardinality(prepared \ {q}) \in Nat
  BY <1>4, Zenon DEF CountingFacts
<1>6. NewReq = n + 1
  BY DEF NewReq
<1> HIDE DEF n, k
<1>7. NewReq \in Reqs /\ NewReq # NoReq
  BY <1>1, <1>2, <1>3, <1>4, <1>5, <1>6, SMTT(30) DEF Reqs, NoReq
<1>8. NewReq \notin Allocated
  BY <1>1, <1>2, <1>6, SMTT(30)
<1>9. Cardinality(prepared \ {q}) + NewReq <= budget.reqs
  BY <1>1, <1>2, <1>3, <1>4, <1>6, SMTT(30)
<1>10. QED
  BY <1>4, <1>6, <1>7, <1>8, <1>9, Zenon DEF n

\* drbd_req_new(): a request that nobody else knows.
LEMMA NewReqInv ==
  ASSUME CountingFacts, EpochInv, NEW q \in prepared, NEW flags \in {{}, {"POSTPONED"}},
         NewRequest(NewReq, q.bio, flags, 0, 0), prepared' = prepared \ {q},
         UNCHANGED <<net_rq_state, tleVars, budget, mentionVars>>
  PROVE  /\ req' \in [Reqs -> [kind : {"unused", "write", "read", "flush"}, blk : Blocks,
                               epoch : Nat, dagtag : Nat]]
         /\ master_bio' \in [Reqs -> Bios \cup {NoBio}]
         /\ local_rq_state' \in [Reqs -> SUBSET LocalFlags]
         /\ prepared' \subseteq [bio : Bios, local : BOOLEAN]
         /\ req'[NewReq].dagtag = 0 /\ req'[NewReq].kind = BioKind[q.bio] /\ master_bio'[NewReq] # NoBio
         /\ Allocated' = Allocated \cup {NewReq}
         /\ AllocInv' /\ FlagInv' /\ CountInv' /\ MentionInv'
<1> DEFINE r == NewReq
           b == q.bio
           v == [kind |-> BioKind[b], blk |-> BioBlock[b], epoch |-> 0, dagtag |-> 0]
           fl == flags \cup IF BioKind[b] = "read" THEN {} ELSE {"WRITE"}
<1> ShapeInv /\ AllocInv /\ MentionInv /\ CountInv /\ FlagInv
  BY DEF EpochInv
<1>1. r \in Reqs /\ r \notin Allocated /\ IsFiniteSet(prepared \ {q}) /\ r = Cardinality(Allocated) + 1
      /\ Cardinality(prepared \ {q}) + r <= budget.reqs
  BY NewReqFresh
<1>2. /\ req' = [req EXCEPT ![r] = v] /\ master_bio' = [master_bio EXCEPT ![r] = b]
      /\ local_rq_state' = [local_rq_state EXCEPT ![r] = fl]
  BY Zenon DEF NewRequest
<1>3. b \in Bios /\ b # NoBio /\ BioKind[b] \in {"write", "read", "flush"} /\ BioBlock[b] \in Blocks
  <2>1. b \in Bios
    BY SMT DEF ShapeInv
  <2>2. QED
    BY <2>1, BiosAssumption, Zenon
<1>4. 0 \in Nat
  BY SMT
<1>5. v \in [kind : {"unused", "write", "read", "flush"}, blk : Blocks, epoch : Nat, dagtag : Nat]
  BY <1>3, <1>4, Zenon
<1>6. fl \in SUBSET LocalFlags /\ fl \cap LOCAL_MASK = {}
  BY Zenon DEF LocalFlags, LOCAL_MASK
<1>7. v.kind = BioKind[b] /\ v.dagtag = 0
  OBVIOUS
<1> HIDE DEF r, b, v, fl
<1>8. /\ req' \in [Reqs -> [kind : {"unused", "write", "read", "flush"}, blk : Blocks,
                            epoch : Nat, dagtag : Nat]]
      /\ req'[r] = v /\ \A k \in Reqs : k # r => req'[k] = req[k]
  <2>1. req \in [Reqs -> [kind : {"unused", "write", "read", "flush"}, blk : Blocks,
                          epoch : Nat, dagtag : Nat]]
    BY DEF ShapeInv
  <2>2. QED
    BY <1>1, <1>2, <1>5, <2>1, Zenon
<1>9. /\ master_bio' \in [Reqs -> Bios \cup {NoBio}] /\ master_bio'[r] = b
      /\ \A k \in Reqs : k # r => master_bio'[k] = master_bio[k]
  <2>1. master_bio \in [Reqs -> Bios \cup {NoBio}]
    BY Zenon DEF ShapeInv
  <2>2. QED
    BY <1>1, <1>2, <1>3, <2>1, Zenon
<1>10. /\ local_rq_state' \in [Reqs -> SUBSET LocalFlags] /\ local_rq_state'[r] = fl
       /\ \A k \in Reqs : k # r => local_rq_state'[k] = local_rq_state[k]
  <2>1. local_rq_state \in [Reqs -> SUBSET LocalFlags]
    BY DEF ShapeInv
  <2>2. QED
    BY <1>1, <1>2, <1>6, <2>1, Zenon
<1>11. prepared' \subseteq [bio : Bios, local : BOOLEAN]
  BY Zenon DEF ShapeInv
<1>12. Allocated' = Allocated \cup {r}
  <2>1. \A k \in Reqs : k \in Allocated' <=> k \in Allocated \/ k = r
    BY <1>1, <1>3, <1>7, <1>8, Zenon DEF Allocated
  <2>2. Allocated \subseteq Reqs /\ Allocated' \subseteq Reqs
    BY DEF Allocated
  <2>3. QED
    BY <1>1, <2>1, <2>2, Zenon
<1>13. AllocInv'
  <2>1. Cardinality(Allocated') = Cardinality(Allocated) + 1
    BY <1>1, <1>12, AllocatedFinite, Zenon DEF CountingFacts
  <2>2. Allocated = 1 .. Cardinality(Allocated) /\ Cardinality(Allocated) \in Nat
    BY AllocatedFinite, Zenon DEF AllocInv
  <2>3. Allocated' = 1 .. Cardinality(Allocated')
    BY <1>1, <1>12, <2>1, <2>2, SMT
  <2>4. Cardinality(prepared') + Cardinality(Allocated') <= budget'.reqs
    BY <1>1, <2>1, Zenon
  <2>5. QED
    BY <1>1, <2>3, <2>4, Zenon DEF AllocInv
<1>14. Known \subseteq Known' /\ ~HasEpoch(r)
  <2>1. Known \subseteq Allocated
    BY SMT DEF Known, HasEpoch, Allocated
  <2>2. \A k \in Known : req'[k] = req[k]
    BY <1>1, <1>8, <2>1, Zenon DEF Allocated
  <2>3. \A k \in Known : k \in Known'
    BY <2>2, Zenon DEF Known, HasEpoch
  <2>4. QED
    BY <1>1, <2>1, <2>3, Zenon DEF Known
<1>15. MentionInv'
  BY <1>14, MentionGrows
<1>16. FlagInv'
  <2>1. SUFFICES ASSUME NEW k \in Reqs,
                        local_rq_state'[k] \cap LOCAL_MASK # {} \/ \E p \in Peers : net_rq_state'[k][p] # {}
                 PROVE  HasEpoch(k)'
    BY Zenon DEF FlagInv
  <2>2. k # r
    BY <1>1, <1>6, <1>10, <1>14, <2>1, Zenon DEF FlagInv
  <2>3. HasEpoch(k)
    BY <1>10, <2>1, <2>2, Zenon DEF FlagInv
  <2>4. QED
    BY <1>8, <2>2, <2>3, Zenon DEF HasEpoch
<1>17. CountInv'
  <2>1. SUFFICES ASSUME NEW k \in Reqs, req'[k].kind = "write", req'[k].dagtag > 0
                 PROVE  /\ req'[k].epoch <= current_tle_nr'
                        /\ req'[k].epoch = current_tle_nr' => current_tle_writes' > 0 /\ master_bio'[k] # NoBio
    BY Zenon DEF CountInv
  <2>2. k # r
    BY <1>7, <1>8, <2>1, SMTT(30)
  <2>3. req'[k] = req[k] /\ master_bio'[k] = master_bio[k] /\ UNCHANGED <<current_tle_nr, current_tle_writes>>
    BY <1>8, <1>9, <2>2, Zenon DEF tleVars
  <2>4. QED
    BY <2>1, <2>3, Zenon DEF CountInv
<1>18. QED
  BY <1>3, <1>7, <1>8, <1>9, <1>10, <1>11, <1>12, <1>13, <1>15, <1>16, <1>17, Zenon DEF r, b

LEMMA ComplGood ==
  ASSUME NEW r \in Reqs, NEW w, w = [Idle EXCEPT !.ph = "compl", !.req = r, !.c = {<<"submit", 0>>}]
  PROVE  OweGood(w) /\ w.req = r
<1> DEFINE x1 == [Idle EXCEPT !.ph = "compl"]
           x2 == [x1 EXCEPT !.req = r]
<1>1. w = [x2 EXCEPT !.c = {<<"submit", 0>>}]
  BY Zenon
<1>2. {<<"submit", 0>>} \in SUBSET Token
  BY SMT DEF Token
<1>3. r \in Ptrs
  BY DEF Ptrs
<1>4. x2 \in OweType
  BY <1>3, IdleType, OweFields, Zenon
<1>5. w \in OweType
  BY <1>1, <1>2, <1>4, OweFields, Zenon
<1>6. w.ph = "compl" /\ w.req = r
  BY IdleType, SMT DEF OweType
<1>7. QED
  BY <1>5, <1>6, Zenon DEF OweGood

LEMMA ThreadsAreActors ==
  /\ Submitter \in Actors /\ RetryWorker \in Actors /\ AbortWorker \in Actors /\ StateChange \in Actors
BY ThreadsAssumption, Zenon DEF AllActors

\* The state of the submitter, the calls under way, and what is already shown.
LEMMA SubmitTo ==
  ASSUME ShapeInv, AllocInv', FlagInv', CountInv', MentionInv', SubmitInv', WalkInv',
         req' \in [Reqs -> [kind : {"unused", "write", "read", "flush"}, blk : Blocks,
                            epoch : Nat, dagtag : Nat]],
         master_bio' \in [Reqs -> Bios \cup {NoBio}],
         local_rq_state' \in [Reqs -> SUBSET LocalFlags],
         net_rq_state' \in [Reqs -> [Peers -> SUBSET NetFlags]],
         current_tle_writes' \in Nat, dagtag_sector' \in Nat,
         next_write' \in [Reqs -> Ptrs], owe' \in [Actors -> OweType],
         sub' \in [pc : {"idle", "epoch", "net", "add", "ready", "local", "put"}, bio : Bios \cup {NoBio},
                   req : Ptrs, local : BOOLEAN, rpeer : SUBSET Peers],
         prepared' \subseteq [bio : Bios, local : BOOLEAN],
         UNCHANGED <<current_tle_nr, retry_writes, suspended_reqs, budget>>
  PROVE  EpochInv'
<1>1. ShapeInv'
  BY Zenon DEF ShapeInv, OweType
<1>2. QED
  BY <1>1 DEF EpochInv

\* nodata:, or pushed back
LEMMA SubmitNowhereInv ==
  ASSUME CountingFacts, EpochInv, NEW q \in prepared, NEW flags \in {{}, {"POSTPONED"}}, SubmitNowhere(q, flags),
         sub.pc = "idle", prepared' = prepared \ {q},
         UNCHANGED <<bio_status, retryVars, ptrVars, snd, netVars, connVars, diskVars>>
  PROVE  EpochInv'
<1> DEFINE w == [Idle EXCEPT !.ph = "compl", !.req = NewReq, !.c = {<<"submit", 0>>}]
<1> ShapeInv /\ SubmitInv /\ WalkInv
  BY DEF EpochInv
<1>1. /\ NewRequest(NewReq, q.bio, flags, 0, 0)
      /\ owe' = [owe EXCEPT ![Submitter] = w]
      /\ UNCHANGED <<net_rq_state, logVars, tleVars, dagtag_sector, sub>>
  BY Zenon DEF SubmitNowhere
<1>2. UNCHANGED <<next_write, current_tle_nr, current_tle_writes, retry_writes, suspended_reqs, budget, mentionVars>>
  BY <1>1 DEF logVars, tleVars, retryVars, connVars, mentionVars, ptrVars, diskVars, netVars
<1>3. /\ req' \in [Reqs -> [kind : {"unused", "write", "read", "flush"}, blk : Blocks,
                            epoch : Nat, dagtag : Nat]]
      /\ master_bio' \in [Reqs -> Bios \cup {NoBio}]
      /\ local_rq_state' \in [Reqs -> SUBSET LocalFlags]
      /\ prepared' \subseteq [bio : Bios, local : BOOLEAN]
      /\ Allocated' = Allocated \cup {NewReq}
      /\ AllocInv' /\ FlagInv' /\ CountInv' /\ MentionInv'
  BY <1>1, <1>2, NewReqInv, Zenon
<1>4. NewReq \in Reqs
  BY NewReqFresh
<1>5. OweGood(w) /\ w.req = NewReq
  BY <1>4, ComplGood, Zenon
<1> HIDE DEF w
<1>6. owe \in [Actors -> OweType] /\ w \in OweType
  BY <1>5, Zenon DEF ShapeInv, OweType, OweGood
<1>7. /\ owe' \in [Actors -> OweType]
      /\ \A a \in Actors : owe'[a] = owe[a] \/ owe'[a] = w
  BY <1>1, <1>6, Zenon
<1>8. WalkInv'
  BY <1>5, <1>7, Zenon DEF WalkInv, OweGood
<1>9. SubmitInv'
  <2>1. \A a \in Actors : owe'[a].req \in Allocated' \cup {NoReq}
    BY <1>3, <1>5, <1>7, Zenon DEF SubmitInv
  <2>2. sub'.pc = "idle"
    BY <1>1
  <2>3. QED
    BY <2>1, <2>2, Zenon DEF SubmitInv
<1>10. /\ net_rq_state' \in [Reqs -> [Peers -> SUBSET NetFlags]]
       /\ current_tle_writes' \in Nat /\ dagtag_sector' \in Nat /\ next_write' \in [Reqs -> Ptrs]
       /\ sub' \in [pc : {"idle", "epoch", "net", "add", "ready", "local", "put"}, bio : Bios \cup {NoBio},
                    req : Ptrs, local : BOOLEAN, rpeer : SUBSET Peers]
  BY <1>1, <1>2, ZenonT(30) DEF ShapeInv
<1>11. QED
  BY <1>2, <1>3, <1>7, <1>8, <1>9, <1>10, SubmitTo, Zenon

\* The request is on its way to its epoch.
StartSubmit(q, local, rp) ==
  /\ NewRequest(NewReq, q.bio, {}, 0, 0)
  /\ dagtag_sector' = dagtag_sector + IF BioKind[q.bio] = "write" THEN 1 ELSE 0
  /\ sub' = [pc |-> "epoch", bio |-> q.bio, req |-> NewReq, local |-> local, rpeer |-> rp]
  /\ UNCHANGED <<net_rq_state, logVars, tleVars, owe>>

LEMMA StartSubmitInv ==
  ASSUME CountingFacts, EpochInv, NEW q \in prepared, NEW local \in BOOLEAN, NEW rp \in SUBSET Peers,
         StartSubmit(q, local, rp), sub.pc = "idle", prepared' = prepared \ {q},
         UNCHANGED <<bio_status, retryVars, ptrVars, snd, netVars, connVars, diskVars>>
  PROVE  EpochInv'
<1> ShapeInv /\ SubmitInv /\ WalkInv
  BY DEF EpochInv
<1>1. /\ NewRequest(NewReq, q.bio, {}, 0, 0)
      /\ UNCHANGED <<net_rq_state, logVars, tleVars, owe>>
  BY Zenon DEF StartSubmit
<1>2. UNCHANGED <<next_write, current_tle_nr, current_tle_writes, retry_writes, suspended_reqs, budget, mentionVars>>
  BY <1>1, Zenon DEF logVars, tleVars, retryVars, connVars, mentionVars, ptrVars, diskVars, netVars
<1>3. /\ req' \in [Reqs -> [kind : {"unused", "write", "read", "flush"}, blk : Blocks,
                            epoch : Nat, dagtag : Nat]]
      /\ master_bio' \in [Reqs -> Bios \cup {NoBio}]
      /\ local_rq_state' \in [Reqs -> SUBSET LocalFlags]
      /\ prepared' \subseteq [bio : Bios, local : BOOLEAN]
      /\ Allocated' = Allocated \cup {NewReq}
      /\ req'[NewReq].dagtag = 0 /\ req'[NewReq].kind = BioKind[q.bio] /\ master_bio'[NewReq] # NoBio
      /\ AllocInv' /\ FlagInv' /\ CountInv' /\ MentionInv'
  <2>1. {} \in {{}, {"POSTPONED"}}
    BY Zenon
  <2>2. QED
    BY <1>1, <1>2, <2>1, NewReqInv
<1>4. NewReq \in Reqs /\ NewReq \notin Allocated /\ NewReq # NoReq
  BY NewReqFresh, Zenon
<1>5. q.bio \in Bios
  BY SMT DEF ShapeInv
<1>6. /\ sub' \in [pc : {"idle", "epoch", "net", "add", "ready", "local", "put"}, bio : Bios \cup {NoBio},
                   req : Ptrs, local : BOOLEAN, rpeer : SUBSET Peers]
      /\ sub'.pc = "epoch" /\ sub'.req = NewReq
  <2>1. sub' = [pc |-> "epoch", bio |-> q.bio, req |-> NewReq, local |-> local, rpeer |-> rp]
    BY ZenonT(30) DEF StartSubmit
  <2>2. NewReq \in Ptrs /\ q.bio \in Bios \cup {NoBio}
    BY <1>4, <1>5, ZenonT(30) DEF Ptrs
  <2>3. QED
    BY <2>1, <2>2, ZenonT(30)
<1>7. /\ dagtag_sector' \in Nat
      /\ BioKind[q.bio] = "write" => dagtag_sector' > 0
  <2>1. dagtag_sector \in Nat
    BY DEF ShapeInv
  <2>2. dagtag_sector' = dagtag_sector + IF BioKind[q.bio] = "write" THEN 1 ELSE 0
    BY Zenon DEF StartSubmit
  <2>3. QED
    BY <2>1, <2>2, SMTT(30)
<1>8. SubmitInv'
  <2>1. \A a \in Actors : owe'[a].req \in Allocated \cup {NoReq}
    BY <1>1, Zenon DEF SubmitInv
  <2>2. \A a \in Actors : owe'[a].req # NewReq /\ owe'[a].req \in Allocated' \cup {NoReq}
    BY <1>3, <1>4, <2>1, Zenon
  <2>3. sub'.req \in Allocated'
    BY <1>3, <1>6, Zenon
  <2>4. QED
    BY <1>3, <1>6, <1>7, <2>2, <2>3, Zenon DEF SubmitInv
<1>9. /\ net_rq_state' \in [Reqs -> [Peers -> SUBSET NetFlags]]
      /\ current_tle_writes' \in Nat /\ next_write' \in [Reqs -> Ptrs] /\ owe' \in [Actors -> OweType]
  BY <1>1, <1>2, Zenon DEF ShapeInv, OweType
<1>10. WalkInv'
  BY <1>1, Zenon DEF WalkInv
<1>11. QED
  BY <1>2, <1>3, <1>6, <1>7, <1>8, <1>9, <1>10, SubmitTo, Zenon

SubType == [pc : {"idle", "epoch", "net", "add", "ready", "local", "put"}, bio : Bios \cup {NoBio},
            req : Ptrs, local : BOOLEAN, rpeer : SUBSET Peers]

LEMMA SubPc ==
  ASSUME EpochInv, NEW pc \in {"idle", "epoch", "net", "add", "ready", "local", "put"},
         sub' = [sub EXCEPT !.pc = pc]
  PROVE  sub' \in SubType /\ sub'.pc = pc /\ sub'.req = sub.req
<1>1. sub \in SubType
  BY DEF EpochInv, ShapeInv, SubType
<1>2. QED
  BY <1>1, Zenon DEF SubType

LEMMA SubKnown ==
  ASSUME EpochInv, sub.pc \in {"net", "add", "ready", "local", "put"}
  PROVE  sub.req \in Known /\ sub.req \in Reqs
BY Zenon DEF EpochInv, SubmitInv, Known

LEMMA NewNetType ==
  ASSUME NEW r, NEW p
  PROVE  NewNet(r, p) \in SUBSET NetFlags
<1>1. ProtocolBits(p) \in SUBSET {"EXP_WRITE_ACK", "EXP_RECEIVE_ACK"}
  BY SMT DEF ProtocolBits
<1>2. NewNet(r, p) \in {{"PENDING", "QUEUED", "EXP_BARR_ACK"} \cup ProtocolBits(p),
                        {"PENDING_OOS", "QUEUED", "DONE"}, {"PENDING", "QUEUED"}, {"OK", "DONE"}, {}}
  BY Zenon DEF NewNet
<1>3. /\ {"PENDING", "QUEUED", "EXP_BARR_ACK"} \cup ProtocolBits(p) \in SUBSET NetFlags
      /\ {"PENDING_OOS", "QUEUED", "DONE"} \in SUBSET NetFlags /\ {"PENDING", "QUEUED"} \in SUBSET NetFlags
      /\ {"OK", "DONE"} \in SUBSET NetFlags
  BY <1>1, Zenon DEF NetFlags, NET_MASK
<1>4. QED
  BY <1>2, <1>3, Zenon

\* Steps of the submitter that leave the requests themselves alone.
LEMMA SubmitterMoves ==
  ASSUME EpochInv, NEW w, OweGood(w), w.req \in {owe[Submitter].req, NoReq, sub.req},
         sub.pc \in {"add", "put"},
         owe' = owe \/ owe' = [owe EXCEPT ![Submitter] = w],
         sub' \in SubType, sub'.pc \in {"idle", "ready"}, sub'.pc = "ready" => sub'.req = sub.req,
         UNCHANGED <<req, master_bio, local_rq_state, net_rq_state, next_write, retry_writes, suspended_reqs,
                     tleVars, dagtag_sector, prepared, budget>>,
         MentionInv'
  PROVE  EpochInv'
<1> ShapeInv /\ SubmitInv /\ WalkInv /\ CountInv /\ FlagInv /\ AllocInv /\ w \in OweType
  BY Zenon DEF EpochInv, OweGood
<1>1. Known' = Known /\ Allocated' = Allocated
  BY KnownSame
<1>2. sub.req \in Known /\ sub.req \in Allocated
  BY Zenon DEF SubmitInv
<1>3. owe \in [Actors -> OweType]
  BY Zenon DEF ShapeInv, OweType
<1>4. owe' \in [Actors -> OweType] /\ \A a \in Actors : owe'[a] = owe[a] \/ owe'[a] = w
  BY <1>3, Zenon
<1>5. WalkInv'
  BY <1>4, Zenon DEF WalkInv, OweGood
<1>6. SubmitInv'
  <2>1. \A a \in Actors : owe[a].req \in Allocated \cup {NoReq}
    BY DEF SubmitInv
  <2>2. w.req \in Allocated \cup {NoReq}
    BY <1>2, <2>1, ThreadsAreActors, Zenon
  <2>3. \A a \in Actors : owe'[a].req \in Allocated' \cup {NoReq}
    BY <1>1, <1>4, <2>1, <2>2, ZenonT(30)
  <2>4. sub'.pc = "idle" \/ (sub'.pc = "ready" /\ sub'.req \in Known' /\ sub'.req \in Allocated')
    BY <1>1, <1>2, ZenonT(30)
  <2>5. sub'.pc # "epoch" /\ (sub'.pc # "idle" => sub'.req \in Known' /\ sub'.req \in Allocated')
    BY <2>4
  <2>6. QED
    BY <2>3, <2>4, <2>5, ZenonT(30) DEF SubmitInv
<1>7. FlagInv' /\ AllocInv'
  BY <1>1, Zenon DEF FlagInv, HasEpoch, AllocInv
<1>8. CountInv' /\ current_tle_writes' \in Nat
  BY CountTle DEF TleStep
<1>9. /\ req' \in [Reqs -> [kind : {"unused", "write", "read", "flush"}, blk : Blocks,
                            epoch : Nat, dagtag : Nat]]
      /\ master_bio' \in [Reqs -> Bios \cup {NoBio}]
      /\ local_rq_state' \in [Reqs -> SUBSET LocalFlags]
      /\ net_rq_state' \in [Reqs -> [Peers -> SUBSET NetFlags]]
      /\ dagtag_sector' \in Nat /\ next_write' \in [Reqs -> Ptrs]
      /\ prepared' \subseteq [bio : Bios, local : BOOLEAN]
      /\ current_tle_nr' = current_tle_nr
  BY ZenonT(30) DEF ShapeInv, tleVars
<1>10. QED
  BY <1>4, <1>5, <1>6, <1>7, <1>8, <1>9, SubmitTo, ZenonT(30) DEF SubType

LEMMA SubIdleType == SubIdle \in SubType /\ SubIdle.pc = "idle"
BY Zenon DEF SubIdle, SubType, Ptrs

\* drbd_send_and_submit() and the retry worker.
LEMMA SubmitStepInv ==
  ASSUME CountingFacts, EpochInv, SubmitStep
  PROVE  EpochInv'
<1>1. ASSUME NEW b \in budget.bios, PrepareRequest(b)
      PROVE  EpochInv'
  <2> USE <1>1
  <2> DEFINE q == [bio |-> b, local |-> disk_state = "UpToDate"]
  <2> ShapeInv /\ AllocInv /\ MentionInv /\ CountInv
    BY DEF EpochInv
  <2>1. /\ prepared' = prepared \cup {q}
        /\ Cardinality(prepared) + Cardinality(Allocated) < budget.reqs
        /\ UNCHANGED <<req, master_bio, flagVars, logVars, retryVars, ptrVars, tleVars, owe, dagtag_sector, sub,
                       snd, netVars, connVars, diskVars>>
    BY Zenon DEF PrepareRequest
  <2>2. b \in Bios /\ (disk_state = "UpToDate") \in BOOLEAN
    BY SMT DEF ShapeInv
  <2>3. q \in [bio : Bios, local : BOOLEAN]
    BY <2>2, Zenon
  <2> HIDE DEF q
  <2>4. prepared' \subseteq [bio : Bios, local : BOOLEAN]
    BY <2>1, <2>3, SMTT(30) DEF ShapeInv
  <2>5. UNCHANGED <<req, master_bio, local_rq_state, net_rq_state, next_write, retry_writes, suspended_reqs,
                    current_tle_nr, current_tle_writes, budget, owe, sub, dagtag_sector>>
    BY <2>1 DEF flagVars, logVars, retryVars, tleVars, connVars
  <2>6. ShapeInv'
    BY <2>4, <2>5, Zenon DEF ShapeInv
  <2>7. AllocInv'
    <3>1. IsFiniteSet(prepared) /\ Allocated = 1 .. Cardinality(Allocated)
      BY DEF AllocInv
    <3>2. /\ IsFiniteSet(prepared \cup {q})
          /\ Cardinality(prepared \cup {q}) = IF q \in prepared THEN Cardinality(prepared) ELSE Cardinality(prepared) + 1
      BY <3>1, Zenon DEF CountingFacts
    <3>3. Cardinality(prepared) \in Nat /\ Cardinality(Allocated) \in Nat
      BY <3>1, AllocatedFinite, Zenon DEF CountingFacts
    <3>7. budget.reqs \in Int
      <4>1. budget.reqs \in 0 .. MaxReqs
        BY Zenon DEF ShapeInv
      <4>2. QED
        BY <4>1, MaxReqsAssumption, SMTT(30)
    <3>4. Cardinality(prepared') + Cardinality(Allocated) <= budget.reqs
      <4> DEFINE c == Cardinality(prepared)
                 d == Cardinality(Allocated)
                 e == Cardinality(prepared')
      <4>1. (e = c \/ e = c + 1) /\ c + d < budget.reqs /\ c \in Nat /\ d \in Nat
        BY <2>1, <3>2, <3>3, Zenon
      <4> HIDE DEF c, d, e
      <4>2. e + d <= budget.reqs
        BY <3>7, <4>1, SMTT(30)
      <4>3. QED
        BY <4>2 DEF d, e
    <3>5. Allocated' = Allocated
      BY <2>5, KnownSame, Zenon
    <3>6. QED
      BY <2>1, <2>5, <3>1, <3>2, <3>4, <3>5, Zenon DEF AllocInv
  <2>8. MentionInv'
    BY <2>1, <2>5, MentionSame, Zenon DEF mentionVars, netVars, logVars, ptrVars, diskVars
  <2>9. WalkInv' /\ SubmitInv' /\ FlagInv' /\ CountInv'
    BY <2>5, KnownSame, Zenon DEF EpochInv, WalkInv, SubmitInv, FlagInv, HasEpoch, CountInv
  <2>10. QED
    BY <2>6, <2>7, <2>8, <2>9, Zenon DEF EpochInv
<1>2. ASSUME NEW q \in prepared, SubmitRequest(q)
      PROVE  EpochInv'
  <2> USE <1>2
  <2>1. /\ sub.pc = "idle" /\ prepared' = prepared \ {q}
        /\ UNCHANGED <<bio_status, retryVars, ptrVars, snd, netVars, connVars, diskVars>>
    BY Zenon DEF SubmitRequest
  <2>2. \/ SubmitNowhere(q, {"POSTPONED"}) \/ SubmitNowhere(q, {})
        \/ StartSubmit(q, q.local, {}) \/ StartSubmit(q, TRUE, {})
        \/ \E p \in Readable : StartSubmit(q, FALSE, {p})
    BY Zenon DEF SubmitRequest, StartSubmit
  <2>3. q.local \in BOOLEAN
    BY Zenon DEF EpochInv, ShapeInv
  <2>4. CASE SubmitNowhere(q, {"POSTPONED"})
    BY <2>1, <2>4, SubmitNowhereInv, Zenon
  <2>5. CASE SubmitNowhere(q, {})
    BY <2>1, <2>5, SubmitNowhereInv, Zenon
  <2>6. CASE StartSubmit(q, q.local, {})
    BY <2>1, <2>3, <2>6, StartSubmitInv, Zenon
  <2>7. CASE StartSubmit(q, TRUE, {})
    BY <2>1, <2>7, StartSubmitInv, Zenon
  <2>8. ASSUME NEW p \in Readable, StartSubmit(q, FALSE, {p})
        PROVE  EpochInv'
    <3>1. {p} \in SUBSET Peers
      BY Zenon DEF Readable
    <3>2. QED
      BY <2>1, <2>8, <3>1, StartSubmitInv, Zenon
  <2>9. QED
    BY <2>2, <2>4, <2>5, <2>6, <2>7, <2>8, Zenon
\* The write joins the current epoch, which counts it.
<1>3. CASE AssignEpoch
  <2> USE <1>3
  <2>a. PICK r : r = sub.req
    OBVIOUS
  <2> DEFINE v == [req[r] EXCEPT !.epoch = current_tle_nr, !.dagtag = dagtag_sector]
             v1 == [req[r] EXCEPT !.epoch = current_tle_nr]
             ReqType == [kind : {"unused", "write", "read", "flush"}, blk : Blocks, epoch : Nat, dagtag : Nat]
  <2> ShapeInv /\ SubmitInv /\ WalkInv /\ CountInv /\ FlagInv /\ AllocInv /\ MentionInv
    BY DEF EpochInv
  <2>1. /\ sub.pc = "epoch" /\ req' = [req EXCEPT ![r] = v]
        /\ sub' = [sub EXCEPT !.pc = "net"]
        /\ UNCHANGED <<bioVars, flagVars, transfer_log, retryVars, ptrVars, current_tle_nr, owe,
                       dagtag_sector, prepared, snd, netVars, connVars, diskVars>>
    BY <2>a, Zenon DEF AssignEpoch
  <2>2. /\ req[r].kind = "write" => current_tle_writes' = current_tle_writes + 1
        /\ req[r].kind # "write" => current_tle_writes' = current_tle_writes
        /\ next_write' = next_write \/ next_write' = [next_write EXCEPT ![tl_previous_write] = r]
    BY <2>a, Zenon DEF AssignEpoch
  <2>3. r \in Allocated /\ r \in Reqs /\ r \in Ptrs
    BY <2>1, <2>a, Zenon DEF SubmitInv, Allocated, Ptrs
  <2>4. req \in [Reqs -> ReqType] /\ req[r] \in ReqType /\ current_tle_nr \in Nat /\ dagtag_sector \in Nat
        /\ current_tle_writes \in Nat
    BY <2>3 DEF ShapeInv
  <2>5. v = [v1 EXCEPT !.dagtag = dagtag_sector]
    BY Zenon
  <2>6. v1 \in ReqType
    BY <2>4, Zenon
  <2>7. v \in ReqType
    <3> HIDE DEF v1
    <3>1. QED
      BY <2>4, <2>5, <2>6, Zenon
  <2>8. v.kind = req[r].kind /\ v.epoch = current_tle_nr /\ v.dagtag = dagtag_sector
    BY <2>4, SMT
  <2> HIDE DEF v, v1
  <2>9. req' \in [Reqs -> ReqType] /\ req'[r] = v /\ \A k \in Reqs : k # r => req'[k] = req[k]
    <3> HIDE DEF ReqType
    <3>1. QED
      BY <2>1, <2>3, <2>4, <2>7, Zenon
  <2>10. \A k \in Reqs : req'[k].kind = req[k].kind
    BY <2>8, <2>9, Zenon
  <2>11. Allocated' = Allocated
    BY <2>10, Zenon DEF Allocated
  <2>12. HasEpoch(r)'
    <3>1. CASE req[r].kind = "write"
      <4>1. dagtag_sector > 0
        BY <2>1, <2>a, <3>1, Zenon DEF SubmitInv
      <4>2. QED
        BY <2>8, <2>9, <3>1, <4>1, Zenon DEF HasEpoch
    <3>2. CASE req[r].kind # "write"
      <4>1. req[r].kind \in {"read", "flush"}
        BY <2>3, <2>4, <3>2, Zenon DEF Allocated
      <4>2. QED
        BY <2>3, <2>10, <4>1, Zenon DEF HasEpoch
    <3>3. QED
      BY <3>1, <3>2, Zenon
  <2>13. \A k \in Reqs : HasEpoch(k) => HasEpoch(k)'
    <3>1. SUFFICES ASSUME NEW k \in Reqs, HasEpoch(k), k # r
                   PROVE  HasEpoch(k)'
      BY <2>12
    <3>2. QED
      BY <2>9, <3>1, Zenon DEF HasEpoch
  <2>14. Known \subseteq Known' /\ r \in Known'
    BY <2>3, <2>12, <2>13, Zenon DEF Known
  <2>15. UNCHANGED mentionVars /\ UNCHANGED <<master_bio, local_rq_state, net_rq_state, retry_writes, suspended_reqs, budget>>
    BY <2>1, Zenon DEF mentionVars, ptrVars, netVars, diskVars, bioVars, flagVars, retryVars, connVars
  <2>16. MentionInv'
    BY <2>14, <2>15, MentionGrows, Zenon
  <2>17. FlagInv'
    BY <2>13, <2>15, Zenon DEF FlagInv
  <2>18. CountInv'
    <3>1. SUFFICES ASSUME NEW k \in Reqs, req'[k].kind = "write", req'[k].dagtag > 0
                   PROVE  /\ req'[k].epoch <= current_tle_nr'
                          /\ req'[k].epoch = current_tle_nr' => current_tle_writes' > 0 /\ master_bio'[k] # NoBio
      BY Zenon DEF CountInv
    <3>2. CASE k = r
      <4>1. req[r].kind = "write"
        BY <2>10, <3>1, <3>2, Zenon
      <4>2. master_bio[r] # NoBio
        BY <2>1, <2>a, <4>1, Zenon DEF SubmitInv
      <4>3. req'[k].epoch = current_tle_nr /\ current_tle_nr' = current_tle_nr
        BY <2>1, <2>8, <2>9, <3>2, Zenon
      <4>4. current_tle_writes' > 0
        BY <2>2, <2>4, <4>1, SMTT(30)
      <4>5. current_tle_nr <= current_tle_nr
        BY <2>4, SMT
      <4>6. QED
        BY <2>15, <3>2, <4>2, <4>3, <4>4, <4>5, Zenon
    <3>3. CASE k # r
      <4>1. req'[k] = req[k] /\ master_bio'[k] = master_bio[k] /\ current_tle_nr' = current_tle_nr
        BY <2>1, <2>9, <2>15, <3>3, Zenon
      <4>2. /\ req[k].epoch <= current_tle_nr
            /\ req[k].epoch = current_tle_nr => current_tle_writes > 0 /\ master_bio[k] # NoBio
        BY <3>1, <4>1, Zenon DEF CountInv
      <4>3. current_tle_writes > 0 => current_tle_writes' > 0
        BY <2>2, <2>4, SMT
      <4>4. QED
        BY <4>1, <4>2, <4>3, Zenon
    <3>4. QED
      BY <3>2, <3>3
  <2>19. sub' \in SubType /\ sub'.pc = "net" /\ sub'.req = r
    BY <2>1, <2>a, SubPc, Zenon
  <2>20. SubmitInv'
    <3>1. \A a \in Actors : owe'[a].req \in Allocated' \cup {NoReq}
      BY <2>1, <2>11, Zenon DEF SubmitInv
    <3>2. sub'.req \in Allocated' /\ sub'.req \in Known'
      BY <2>3, <2>11, <2>14, <2>19, Zenon
    <3>3. QED
      BY <2>19, <3>1, <3>2, Zenon DEF SubmitInv
  <2>21. AllocInv'
    BY <2>1, <2>11, <2>15, Zenon DEF AllocInv
  <2>22. WalkInv'
    BY <2>1, Zenon DEF WalkInv
  <2>23. /\ next_write' \in [Reqs -> Ptrs] /\ current_tle_writes' \in Nat
    <3>1. next_write \in [Reqs -> Ptrs]
      BY DEF ShapeInv
    <3>2. next_write' \in [Reqs -> Ptrs]
      BY <2>2, <2>3, <3>1, Zenon
    <3>3. current_tle_writes' \in Nat
      BY <2>2, <2>4, SMT
    <3>4. QED
      BY <3>2, <3>3, Zenon
  <2>24. /\ master_bio' \in [Reqs -> Bios \cup {NoBio}]
         /\ local_rq_state' \in [Reqs -> SUBSET LocalFlags]
         /\ net_rq_state' \in [Reqs -> [Peers -> SUBSET NetFlags]]
         /\ dagtag_sector' \in Nat /\ owe' \in [Actors -> OweType]
         /\ prepared' \subseteq [bio : Bios, local : BOOLEAN]
    BY <2>1, <2>15, Zenon DEF ShapeInv, OweType
  <2>25. QED
    BY <2>1, <2>9, <2>15, <2>16, <2>17, <2>18, <2>19, <2>20, <2>21, <2>22, <2>23, <2>24, SubmitTo, Zenon
       DEF SubType
<1>4. CASE ProcessNet
  <2> USE <1>4
  <2> DEFINE r == sub.req
             nn == [p \in Peers |-> NewNet(r, p)]
  <2> MentionInv
    BY DEF EpochInv
  <2>1. /\ sub.pc = "net" /\ mod_rq_state(Submitter, r, local_rq_state[r], nn)
        /\ TleStep
        /\ \E pc \in {"local", "add"} : sub' = [sub EXCEPT !.pc = pc]
        /\ UNCHANGED <<modRest, dagtag_sector, prepared, snd, netVars, connVars, diskVars>>
    BY Zenon DEF ProcessNet, TleStep
  <2>2. r \in Known /\ r \in Reqs
    BY <2>1, SubKnown, Zenon
  <2>3. nn \in [Peers -> SUBSET NetFlags]
    BY NewNetType, Zenon
  <2>4. local_rq_state[r] \in SUBSET LocalFlags
    BY <2>2, Zenon DEF EpochInv, ShapeInv
  <2>5. SubMoves
    BY <2>1, Zenon DEF SubMoves
  <2>6. UNCHANGED <<req, master_bio, next_write, retryVars, dagtag_sector, prepared, budget, mentionVars>>
    BY <2>1, Zenon DEF modRest, bioVars, logVars, connVars, mentionVars, diskVars, netVars
  <2>7. MentionInv'
    BY <2>6, MentionSame, Zenon
  <2> HIDE DEF nn, r
  <2>8. QED
    BY <2>1, <2>2, <2>3, <2>4, <2>5, <2>6, <2>7, ModRq, Zenon
<1>5. CASE ReadyForNet
  <2> USE <1>5
  <2> DEFINE r == sub.req
             nn == [p \in Peers |-> net_rq_state[r][p] \cup
                                      IF "PENDING" \in net_rq_state[r][p] THEN {"READY"} ELSE {}]
  <2> MentionInv
    BY DEF EpochInv
  <2>1. /\ sub.pc = "ready" /\ mod_rq_state(Submitter, r, local_rq_state[r], nn)
        /\ sub' = [sub EXCEPT !.pc = "local"]
        /\ UNCHANGED <<modRest, tleVars, dagtag_sector, prepared, snd, netVars, connVars, diskVars>>
    BY Zenon DEF ReadyForNet
  <2>2. r \in Known /\ r \in Reqs
    BY <2>1, SubKnown, Zenon
  <2>3. local_rq_state[r] \in SUBSET LocalFlags /\ net_rq_state[r] \in [Peers -> SUBSET NetFlags]
    BY <2>2, Zenon DEF EpochInv, ShapeInv
  <2>4. nn \in [Peers -> SUBSET NetFlags]
    <3>1. "READY" \in NetFlags
      BY DEF NetFlags, NET_MASK
    <3>2. QED
      BY <2>3, <3>1, Zenon
  <2>5. SubMoves
    BY <2>1, Zenon DEF SubMoves
  <2>6. UNCHANGED <<req, master_bio, next_write, retryVars, dagtag_sector, prepared, budget, mentionVars>> /\ TleStep
    BY <2>1, Zenon DEF modRest, bioVars, logVars, connVars, mentionVars, diskVars, netVars, TleStep
  <2>7. MentionInv'
    BY <2>6, MentionSame, Zenon
  <2> HIDE DEF nn, r
  <2>8. QED
    BY <2>1, <2>2, <2>3, <2>4, <2>5, <2>6, <2>7, ModRq, Zenon
<1>6. CASE ToBeSubmitted
  <2> USE <1>6
  <2> DEFINE set == IF sub.local THEN {"LOCAL_PENDING"} ELSE {}
  <2> MentionInv
    BY DEF EpochInv
  <2>1. /\ sub.pc = "local" /\ mod_local(Submitter, sub.req, {}, set)
        /\ sub' = [sub EXCEPT !.pc = "put"]
        /\ UNCHANGED <<dagtag_sector, prepared, snd, netVars, connVars, diskVars>>
    BY Zenon DEF ToBeSubmitted
  <2>2. sub.req \in Known
    BY <2>1, SubKnown, Zenon
  <2>3. set \in SUBSET LocalFlags
    BY FlagSetTypes, Zenon
  <2>4. SubMoves
    BY <2>1, Zenon DEF SubMoves
  <2> HIDE DEF set
  <2>5. disk_io' \subseteq Known /\ budget' = budget
    BY <2>1, MentionTypes, Zenon DEF diskVars, connVars
  <2>6. MentionInv'
    BY <2>1, <2>5, LocalMention, Zenon
  <2>7. QED
    BY <2>1, <2>2, <2>3, <2>4, <2>5, <2>6, LocalMod, Zenon
<1>7. CASE AddToLog
  <2> USE <1>7
  <2> MentionInv
    BY DEF EpochInv
  <2>1. /\ sub.pc = "add" /\ sub' = [sub EXCEPT !.pc = "ready"]
        /\ transfer_log' = transfer_log \cup {sub.req}
        /\ UNCHANGED <<req, bioVars, flagVars, next_write, retryVars, ptrVars, tleVars,
                       owe, dagtag_sector, prepared, snd, netVars, connVars, diskVars>>
    BY DEF AddToLog
  <2>2. sub.req \in Known
    BY <2>1, SubKnown, Zenon
  <2>3. sub' \in SubType /\ sub'.pc = "ready" /\ sub'.req = sub.req
    BY <2>1, SubPc, Zenon
  <2>4. transfer_log' \subseteq Known /\ disk_io' \subseteq Known
    BY <2>1, <2>2, MentionTypes, Zenon DEF diskVars
  <2>5. MentionInv'
    BY <2>1, <2>4, MentionLog, Zenon DEF ptrVars
  <2>6. UNCHANGED <<req, master_bio, local_rq_state, net_rq_state, next_write, retry_writes, suspended_reqs,
                    tleVars, dagtag_sector, prepared, budget>>
    BY <2>1 DEF bioVars, flagVars, retryVars, connVars
  <2>7. QED
    BY <2>1, <2>3, <2>5, <2>6, IdleGood, SubmitterMoves, Zenon
<1>8. CASE SubmitDone
  <2> USE <1>8
  <2> DEFINE w == [Idle EXCEPT !.ph = "compl", !.req = sub.req, !.c = {<<"submit", 0>>}]
  <2> MentionInv
    BY DEF EpochInv
  <2>1. /\ sub.pc = "put" /\ sub' = SubIdle /\ owe' = [owe EXCEPT ![Submitter] = w]
        /\ disk_io' \in {disk_io, disk_io \cup {sub.req}}
        /\ UNCHANGED <<req, bioVars, flagVars, logVars, retryVars, ptrVars, tleVars,
                       dagtag_sector, prepared, snd, netVars, connVars>>
    BY Zenon DEF SubmitDone
  <2>2. sub.req \in Known /\ sub.req \in Reqs
    BY <2>1, SubKnown, Zenon
  <2>3. OweGood(w) /\ w.req = sub.req
    BY <2>2, ComplGood, Zenon
  <2> HIDE DEF w
  <2>4. sub' \in SubType /\ sub'.pc = "idle"
    BY <2>1, SubIdleType, Zenon
  <2>5. transfer_log' \subseteq Known /\ disk_io' \subseteq Known
    BY <2>1, <2>2, MentionTypes, Zenon DEF logVars
  <2>6. MentionInv'
    BY <2>1, <2>5, MentionLog, Zenon DEF ptrVars
  <2>7. UNCHANGED <<req, master_bio, local_rq_state, net_rq_state, next_write, retry_writes, suspended_reqs,
                    tleVars, dagtag_sector, prepared, budget>>
    BY <2>1, Zenon DEF bioVars, flagVars, retryVars, connVars, logVars
  <2>8. sub'.pc = "ready" => sub'.req = sub.req
    BY <2>4
  <2>9. QED
    BY <2>1, <2>3, <2>4, <2>6, <2>7, <2>8, SubmitterMoves, Zenon
<1>9. ASSUME NEW r \in Reqs, do_retry(r)
      PROVE  EpochInv'
  <2> USE <1>9
  <2> DEFINE a == RetryWorker
             w == StartWalk(Idle, r, {<<"compl", 0>>}, {})
  <2> ShapeInv /\ MentionInv /\ FlagInv /\ CountInv
    BY DEF EpochInv
  <2>1. /\ owe' = [owe EXCEPT ![a] = w]
        /\ retry_writes' = retry_writes \ {r}
        /\ UNCHANGED <<req, master_bio, flagVars, logVars, suspended_reqs, ptrVars, tleVars, envVars>>
    BY Zenon DEF do_retry
  <2>2. /\ {<<"compl", 0>>} \in SUBSET Token /\ {} \in SUBSET Token /\ r \in Ptrs
    BY SMTT(30) DEF Token, Ptrs
  <2>3. Idle.d \cup Idle.o = {}
    BY SMTT(30) DEF Idle
  <2>4. OweGood(w) /\ w.req \in {Idle.req, NoReq}
    BY <2>2, <2>3, IdleType, WalkGood, ZenonT(30)
  <2>5. w.req \in {owe[a].req, NoReq}
    BY <2>4, IdleGood, Zenon
  <2> HIDE DEF w
  <2>6. UNCHANGED <<next_write, dagtag_sector, sub, prepared, budget, mentionVars>>
    BY <2>1, Zenon DEF logVars, envVars, connVars, mentionVars, ptrVars, netVars, diskVars
  <2>7. MentionInv'
    BY <2>1, <2>6, MentionSame, Zenon
  <2>8. FlagInv'
    BY <2>1, FlagSame, Zenon
  <2>9. CountInv' /\ current_tle_nr' \in Nat /\ current_tle_writes' \in Nat
    BY <2>1, CountTle DEF TleStep
  <2>10. /\ retry_writes' \subseteq Reqs /\ suspended_reqs' \subseteq Reqs
         /\ master_bio' \in [Reqs -> Bios \cup {NoBio}]
         /\ local_rq_state' \in [Reqs -> SUBSET LocalFlags]
         /\ net_rq_state' \in [Reqs -> [Peers -> SUBSET NetFlags]]
         /\ \A k \in Reqs : k # owe[a].req => master_bio'[k] = master_bio[k]
    BY <2>1, Zenon DEF ShapeInv, flagVars
  <2>11. a \in Actors
    BY ThreadsAreActors
  <2> HIDE DEF a
  <2>12. QED
    BY <2>1, <2>4, <2>5, <2>6, <2>7, <2>8, <2>9, <2>10, <2>11, OweMoves, Zenon
<1>10. QED
  BY <1>1, <1>2, <1>3, <1>4, <1>5, <1>6, <1>7, <1>8, <1>9, Zenon DEF SubmitStep

=============================================================================

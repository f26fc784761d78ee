-------------------------- MODULE DrbdRequestProofs --------------------------
(***************************************************************************)
(* Proofs about DrbdRequest.  A write belongs to an epoch from the moment  *)
(* drbd_send_and_submit() adds it to the transfer log, and the epoch is    *)
(* closed before the write is completed to the upper layers, whatever the  *)
(* number of peers, requests and threads, and whatever fails meanwhile.    *)
(***************************************************************************)
EXTENDS RequestEventProofs, FiniteSetTheorems, TLAPS

(***************************************************************************)
(* Least elements and cardinalities.                                       *)
(***************************************************************************)
Less == {ss \in Nat \X Nat : ss[1] < ss[2]}

LEMMA MinInSet ==
  ASSUME NEW S \in SUBSET Nat, S # {}
  PROVE  Min(S) \in S /\ \A y \in S : Min(S) <= y
<1>1. IsWellFoundedOn(Less, Nat)
  BY NatLessThanWellFounded, Zenon DEF OpToRel, Less
<1>2. PICK x \in S : \A y \in S : ~(<<y, x>> \in Less)
  BY <1>1, WFMin, Zenon
<1>3. ASSUME NEW y \in S
      PROVE  x <= y
  <2>1. x \in Nat /\ y \in Nat /\ <<y, x>> \notin Less
    BY <1>2, Zenon
  <2>2. y < x => <<y, x>> \in Less
    BY <2>1, SMT DEF Less
  <2>3. QED
    BY <2>1, <2>2, SMT
<1>4. QED
  BY <1>3, Zenon DEF Min

LEMMA LeastRequest == LeastExists
<1>1. ASSUME NEW S \in SUBSET Reqs, S # {}
      PROVE  Min(S) \in S
  <2>1. S \subseteq Nat
    BY MaxReqsAssumption, SMT DEF Reqs
  <2>2. QED
    BY <1>1, <2>1, MinInSet
<1>2. QED
  BY <1>1 DEF LeastExists

LEMMA Counting == CountingFacts
<1>1. ASSUME NEW S \in SUBSET Reqs
      PROVE  IsFiniteSet(S)
  <2>1. IsFiniteSet(Reqs)
    BY MaxReqsAssumption, FS_Interval, SMT DEF Reqs
  <2>2. QED
    BY <1>1, <2>1, FS_Subset
<1>2. ASSUME NEW S, IsFiniteSet(S)
      PROVE  /\ Cardinality(S) \in Nat
             /\ \A x : /\ IsFiniteSet(S \cup {x})
                       /\ Cardinality(S \cup {x}) = IF x \in S THEN Cardinality(S) ELSE Cardinality(S) + 1
                       /\ IsFiniteSet(S \ {x})
                       /\ Cardinality(S \ {x}) = IF x \in S THEN Cardinality(S) - 1 ELSE Cardinality(S)
  <2>1. Cardinality(S) \in Nat
    BY <1>2, FS_CardinalityType
  <2>2. ASSUME NEW x
        PROVE  /\ IsFiniteSet(S \cup {x})
               /\ Cardinality(S \cup {x}) = IF x \in S THEN Cardinality(S) ELSE Cardinality(S) + 1
    BY <1>2, FS_AddElement
  <2>3. ASSUME NEW x
        PROVE  /\ IsFiniteSet(S \ {x})
               /\ Cardinality(S \ {x}) = IF x \in S THEN Cardinality(S) - 1 ELSE Cardinality(S)
    BY <1>2, FS_RemoveElement
  <2>4. QED
    BY <2>1, <2>2, <2>3, Zenon
<1>3. QED
  BY <1>1, <1>2, Zenon DEF CountingFacts

(***************************************************************************)
(* The theorems.                                                           *)
(***************************************************************************)
LEMMA InitInv ==
  ASSUME Init
  PROVE  EpochInv
<1>1. 0 \in Nat /\ 0 \in Int /\ 0 \in Ptrs /\ (CHOOSE k \in Blocks : TRUE) \in Blocks
  <2>1. (CHOOSE k \in Blocks : TRUE) \in Blocks
    BY BlocksAssumption, Zenon
  <2>2. QED
    BY <2>1, SMT DEF Ptrs, NoReq
<1>2. budget \in [peers : SUBSET Peers, bios : SUBSET Bios, reqs : 0 .. MaxReqs, loss : Int,
                  mode : Int, disk : Int, neg : Int, force : BOOLEAN, suspend : BOOLEAN,
                  races : SUBSET {"preempt", "resume", "abort", "reply"}]
  <2>1. budget \in [peers : SUBSET Peers, bios : SUBSET Bios, reqs : 0 .. MaxReqs, loss : Nat,
                    mode : Nat, disk : 0 .. 1, neg : Nat, force : BOOLEAN, suspend : BOOLEAN,
                    races : SUBSET {"preempt", "resume", "abort", "reply"}]
    BY ScenariosAssumption, Zenon DEF Init
  <2>2. Nat \subseteq Int /\ 0 .. 1 \subseteq Int
    BY SMT
  <2>3. QED
    BY <2>1, <2>2, Zenon
<1>3. req \in [Reqs -> [kind : {"unused", "write", "read", "flush"}, blk : Blocks,
                        epoch : Nat, dagtag : Nat]] /\ \A r \in Reqs : req[r].kind = "unused"
  <2>1. req = [r \in Reqs |-> [kind |-> "unused", blk |-> CHOOSE k \in Blocks : TRUE, epoch |-> 0, dagtag |-> 0]]
    BY Zenon DEF Init
  <2>2. [kind |-> "unused", blk |-> CHOOSE k \in Blocks : TRUE, epoch |-> 0, dagtag |-> 0]
          \in [kind : {"unused", "write", "read", "flush"}, blk : Blocks, epoch : Nat, dagtag : Nat]
    BY <1>1, Zenon
  <2>3. QED
    BY <2>1, <2>2, Zenon
<1>4. ShapeInv
  <2>1. owe \in [Actors -> OweType]
    BY IdleType, Zenon DEF Init
  <2>2. sub \in SubType
    BY SubIdleType, Zenon DEF Init
  <2>3. /\ master_bio \in [Reqs -> Bios \cup {NoBio}]
        /\ local_rq_state \in [Reqs -> SUBSET LocalFlags]
        /\ net_rq_state \in [Reqs -> [Peers -> SUBSET NetFlags]]
        /\ next_write \in [Reqs -> Ptrs] /\ retry_writes \subseteq Reqs /\ suspended_reqs \subseteq Reqs
        /\ prepared \subseteq [bio : Bios, local : BOOLEAN]
    BY <1>1, Zenon DEF Init, NoReq
  <2>4. current_tle_nr \in Nat /\ current_tle_writes \in Nat /\ dagtag_sector \in Nat
    BY <1>1, Zenon DEF Init
  <2>5. QED
    BY <1>2, <1>3, <2>1, <2>2, <2>3, <2>4, Zenon DEF ShapeInv, OweType, SubType
<1>5. MentionInv
  <2>1. /\ transfer_log \subseteq Known /\ disk_io \subseteq Known
        /\ req_next \in [Peers -> Known \cup {NoReq}]
    BY Zenon DEF Init
  <2>2. /\ wire \in [Peers -> Seq(Packets)] /\ ctl \in [Peers -> Seq(Acks)]
        /\ replies \in [Peers -> Seq(Answers)]
    <3>1. <<>> \in Seq(Packets) /\ <<>> \in Seq(Acks) /\ <<>> \in Seq(Answers)
      OBVIOUS
    <3>2. QED
      BY <3>1, Zenon DEF Init
  <2>3. peer \in [Peers -> [active : SUBSET Known, size : Int, failed : BOOLEAN, data : [Blocks -> Ptrs]]]
    <3>1. [k \in Blocks |-> NoReq] \in [Blocks -> Ptrs]
      BY <1>1, Zenon DEF NoReq
    <3>2. [active |-> {}, size |-> 0, failed |-> FALSE, data |-> [k \in Blocks |-> NoReq]]
            \in [active : SUBSET Known, size : Int, failed : BOOLEAN, data : [Blocks -> Ptrs]]
      BY <1>1, <3>1, Zenon
    <3>3. QED
      BY <3>2, Zenon DEF Init
  <2>4. SndInit \in SndType /\ SndInit.pc = "idle"
    BY <1>1, Zenon DEF SndInit, SndType
  <2>5. snd \in [Peers -> SndType] /\ \A p \in Peers : snd[p].pc = "idle"
    BY <2>4, Zenon DEF Init
  <2>6. \A p \in Peers : snd[p].pc \in {"send", "sent"} => snd[p].req # NoReq
    BY <2>5, SMT
  <2>7. QED
    BY <2>1, <2>2, <2>3, <2>5, <2>6, Zenon DEF MentionInv, SndType
<1>6. Allocated = {}
  BY <1>3, Zenon DEF Allocated
<1>7. AllocInv
  <2>1. prepared = {} /\ budget.reqs \in 0 .. MaxReqs
    BY <1>2, Zenon DEF Init
  <2>2. IsFiniteSet({}) /\ Cardinality({}) = 0
    BY FS_EmptySet
  <2>3. {} = 1 .. 0 /\ 0 + 0 <= budget.reqs
    BY <2>1, MaxReqsAssumption, SMT
  <2>4. QED
    BY <1>6, <2>1, <2>2, <2>3, Zenon DEF AllocInv
<1>8. FlagInv
  <2>1. \A r \in Reqs : local_rq_state[r] = {} /\ \A p \in Peers : net_rq_state[r][p] = {}
    BY Zenon DEF Init
  <2>2. QED
    BY <2>1 DEF FlagInv
<1>9. CountInv
  BY <1>3, SMT DEF CountInv
<1>10. SubmitInv /\ WalkInv
  <2>1. \A a \in Actors : owe[a] = Idle
    BY Zenon DEF Init
  <2>2. sub.pc = "idle"
    BY SubIdleType, Zenon DEF Init
  <2>3. SubmitInv
    BY <2>1, <2>2, IdleGood, Zenon DEF SubmitInv
  <2>4. WalkInv
    BY <2>1, IdleGood, Zenon DEF WalkInv, OweGood
  <2>5. QED
    BY <2>3, <2>4
<1>11. QED
  BY <1>4, <1>5, <1>7, <1>8, <1>9, <1>10, Zenon DEF EpochInv

LEMMA StutterInv ==
  ASSUME EpochInv, UNCHANGED vars
  PROVE  EpochInv'
BY WalkEndInv DEF vars, envVars, connVars

LEMMA NextInv ==
  ASSUME EpochInv, Next
  PROVE  EpochInv'
<1>1. CASE OtherStep
  BY <1>1, LeastRequest, DiskStepInv, StateStepInv, SenderStepInv, PeerStepInv, AckStepInv, DisconnectStepInv, Zenon
     DEF OtherStep
<1>2. ASSUME NEW a \in AllActors, ProgressStep(a)
      PROVE  EpochInv'
  <2>1. a \in Actors
    BY ThreadsAssumption
  <2>2. (Progress(a) \/ UpdateLog(a)) /\ UNCHANGED envVars
    BY <1>2 DEF ProgressStep
  <2>3. QED
    BY <2>1, <2>2, LeastRequest, ProgressInv, Zenon
<1>3. QED
  BY <1>1, <1>2, Counting, SubmitStepInv, AbortModInv, Zenon DEF Next

\* In every state, whatever is known to the disk, a sender or a connection is a
\* request that drbd_send_and_submit() has put into an epoch, and the current
\* epoch counts the writes that it has.
THEOREM EpochInvariance == Spec => []EpochInv
<1>1. Init => EpochInv
  BY InitInv
<1>2. EpochInv /\ [Next]_vars => EpochInv'
  BY NextInv, StutterInv
<1>3. QED
  BY <1>1, <1>2, PTL DEF Spec

\* drbd_req_complete() has closed the epoch of every write it completed, so that a
\* write submitted after the completion goes into a later epoch and is separated
\* from it by a barrier on every connection.  This holds for any number of peers,
\* requests and threads, and in every scenario: with all races, suspension, aborts
\* and failures.
THEOREM CompletedEpochs == Spec => []CompletedEpochClosed
<1>1. EpochInv => CompletedEpochClosed
  <2>1. SUFFICES ASSUME EpochInv, NEW r \in Reqs, Submitted(r), req[r].kind = "write", master_bio[r] = NoBio
                 PROVE  req[r].epoch < current_tle_nr
    BY DEF CompletedEpochClosed
  <2>2. HasEpoch(r)
    BY <2>1, Zenon DEF EpochInv, FlagInv, Submitted
  <2>3. req[r].dagtag > 0
    BY <2>1, <2>2 DEF HasEpoch
  <2>4. req[r].epoch <= current_tle_nr /\ req[r].epoch # current_tle_nr
    BY <2>1, <2>3, Zenon DEF EpochInv, CountInv
  <2>5. req[r].epoch \in Nat /\ current_tle_nr \in Nat
    BY <2>1, SMTT(30) DEF EpochInv, ShapeInv
  <2>6. QED
    BY <2>4, <2>5, SMTT(30)
<1>2. QED
  BY <1>1, EpochInvariance, PTL

=============================================================================

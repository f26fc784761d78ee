-------------------------- MODULE RequestStepProofs -------------------------
(***************************************************************************)
(* Proofs about DrbdRequest, first part: mod_rq_state(), the rest of a call *)
(* after rq_lock was dropped, the senders and the peers keep EpochInv.     *)
(***************************************************************************)
EXTENDS DrbdRequest, TLAPS

(***************************************************************************)
(* Least elements, and what is found on the transfer log.                  *)
(***************************************************************************)
\* A set of requests has a least element: the request that a walk over the transfer
\* log comes to next is one of those it looks for.
LeastExists == \A S \in SUBSET Reqs : S # {} => Min(S) \in S

\* NextRequest() finds nothing, or a request that has its epoch.
LEMMA NextRequestKnown ==
  ASSUME LeastExists, MentionInv, NEW p \in Peers
  PROVE  NextRequest(p) \in Known \cup {NoReq}
<1>1. CASE req_next[p] # NoReq
  BY <1>1 DEF NextRequest, MentionInv
<1>2. CASE req_next[p] = NoReq
  <2> DEFINE S == {q \in {j \in transfer_log : QueuedTo(p, j)} : q > 0}
  <2>1. NextRequest(p) = IF S = {} THEN NoReq ELSE Min(S)
    BY <1>2, Zenon DEF NextRequest, NextOnLog
  <2>2. S \subseteq Known /\ S \subseteq Reqs
    BY SMT DEF MentionInv, Known
  <2>3. QED
    BY <2>1, <2>2, Zenon DEF LeastExists
<1>3. QED
  BY <1>1, <1>2

(***************************************************************************)
(* Frames.                                                                 *)
(***************************************************************************)
LEMMA SeqGrows ==
  ASSUME NEW S, NEW T, S \subseteq T
  PROVE  Seq(S) \subseteq Seq(T)
BY SMT

LEMMA SeqMakes ==
  ASSUME NEW S
  PROVE  <<>> \in Seq(S) /\ (\A m \in S : <<m>> \in Seq(S)) /\ (\A s, t \in Seq(S) : s \o t \in Seq(S))
BY SMT

mentionVars == <<transfer_log, disk_io, req_next, wire, ctl, replies, peer, snd>>

LEMMA KnownSame ==
  ASSUME UNCHANGED req
  PROVE  Known' = Known /\ Allocated' = Allocated
BY DEF Known, HasEpoch, Allocated

LEMMA MentionGrows ==
  ASSUME MentionInv, UNCHANGED mentionVars, Known \subseteq Known'
  PROVE  MentionInv'
<1>1. Packets \subseteq Packets' /\ Acks \subseteq Acks' /\ Answers \subseteq Answers'
  BY SMT DEF Packets, Acks, Answers
<1>2. /\ Seq(Packets) \subseteq Seq(Packets') /\ Seq(Acks) \subseteq Seq(Acks')
      /\ Seq(Answers) \subseteq Seq(Answers')
  BY <1>1, SeqGrows, Zenon
<1>3. /\ wire' \in [Peers -> Seq(Packets')] /\ ctl' \in [Peers -> Seq(Acks')]
      /\ replies' \in [Peers -> Seq(Answers')]
  BY <1>2, SMT DEF MentionInv, mentionVars
<1>4. QED
  BY <1>3, SMT DEF MentionInv, mentionVars

TleStep == UNCHANGED tleVars \/ start_new_tl_epoch
SubMoves ==
    \E pc \in {"add", "ready", "local", "put"} :
      sub.pc \in {"net", "add", "ready", "local"} /\ sub' = [sub EXCEPT !.pc = pc]

\* A new epoch leaves every write behind.
LEMMA CountTle ==
  ASSUME ShapeInv, CountInv, UNCHANGED <<req, master_bio>>, TleStep
  PROVE  CountInv' /\ current_tle_nr' \in Nat /\ current_tle_writes' \in Nat
<1>1. /\ current_tle_nr' \in Nat /\ current_tle_writes' \in Nat
      /\ \/ current_tle_nr' = current_tle_nr /\ current_tle_writes' = current_tle_writes
         \/ current_tle_nr' = current_tle_nr + 1
  BY SMT DEF ShapeInv, TleStep, start_new_tl_epoch, tleVars
<1>2. \A r \in Reqs : req[r].epoch \in Nat
  BY SMT DEF ShapeInv
<1>3. current_tle_nr \in Nat
  BY DEF ShapeInv
<1>4. SUFFICES ASSUME NEW r \in Reqs, req[r].kind = "write", req[r].dagtag > 0
               PROVE  /\ req[r].epoch <= current_tle_nr'
                      /\ req[r].epoch = current_tle_nr' => current_tle_writes' > 0 /\ master_bio[r] # NoBio
  BY <1>1, Zenon DEF CountInv
<1>5. /\ req[r].epoch <= current_tle_nr
      /\ req[r].epoch = current_tle_nr => current_tle_writes > 0 /\ master_bio[r] # NoBio
  BY <1>4, Zenon DEF CountInv
<1>6. QED
  BY <1>1, <1>2, <1>3, <1>5, SMT

\* What only moves the network and the disk leaves the rest of the invariant alone.
LEMMA Quiet ==
  ASSUME EpochInv, TleStep,
         UNCHANGED <<req, master_bio, flagVars, next_write, owe, sub, prepared, dagtag_sector>>,
         retry_writes' \subseteq Reqs, suspended_reqs' \subseteq Reqs,
         budget' \in [peers : SUBSET Peers, bios : SUBSET Bios, reqs : 0 .. MaxReqs, loss : Int,
                      mode : Int, disk : Int, neg : Int, force : BOOLEAN, suspend : BOOLEAN,
                      races : SUBSET {"preempt", "resume", "abort", "reply"}],
         budget'.reqs = budget.reqs,
         MentionInv'
  PROVE  EpochInv'
<1>1. CountInv' /\ current_tle_nr' \in Nat /\ current_tle_writes' \in Nat
  BY CountTle DEF EpochInv
<1>2. ShapeInv'
  BY <1>1 DEF EpochInv, ShapeInv, flagVars
<1>3. AllocInv' /\ WalkInv' /\ SubmitInv' /\ FlagInv'
  BY KnownSame, Zenon DEF EpochInv, AllocInv, WalkInv, SubmitInv, FlagInv, HasEpoch, flagVars
<1>4. QED
  BY <1>1, <1>2, <1>3 DEF EpochInv

(***************************************************************************)
(* mod_rq_state().                                                         *)
(***************************************************************************)
LEMMA TokensType ==
  ASSUME NEW S \in SUBSET Peers,
         NEW name \in {"submit", "local", "susp", "pending", "send", "compl", "barr", "prev", "done", "queued"}
  PROVE  Tokens(name, S) \subseteq Token
BY SMT DEF Tokens, Token

LEMMA TokenIfType ==
  ASSUME NEW c,
         NEW name \in {"submit", "local", "susp", "pending", "send", "compl", "barr", "prev", "done", "queued"}
  PROVE  TokenIf(c, name) \subseteq Token
BY SMT DEF TokenIf, Token

LEMMA PutsType ==
  ASSUME NEW ol, NEW nl, NEW on, NEW nn
  PROVE  /\ CompletionPuts(ol, nl, on, nn) \subseteq Token
         /\ DonePuts(ol, nl, on, nn) \subseteq Token
         /\ Tokens("queued", PeersWhere(on, nn, QueuedFalls)) \subseteq Token
<1>1. /\ PeersWhere(on, nn, QueuedFalls) \subseteq Peers /\ PeersWhere(on, nn, PendingFalls) \subseteq Peers
      /\ PeersWhere(on, nn, NeedFalls) \subseteq Peers /\ PeersWhere(on, nn, BarrierDone) \subseteq Peers
  BY DEF PeersWhere
<1>2. CompletionPuts(ol, nl, on, nn) \subseteq Token
  BY <1>1, TokensType, TokenIfType, Zenon DEF CompletionPuts
<1>3. DonePuts(ol, nl, on, nn) \subseteq Token
  BY <1>1, TokensType, TokenIfType, Zenon DEF DonePuts
<1>4. QED
  BY <1>1, <1>2, <1>3, TokensType

OweType == [ph : {"idle", "adv", "compl", "putd", "puto", "link"}, req : Ptrs,
            adv : SUBSET ({"ack", "next", "done"} \X Peers),
            c : SUBSET Token, d : SUBSET Token, o : SUBSET Token, cur : Ptrs,
            cd : SUBSET Token, co : SUBSET Token, done : BOOLEAN, sent : BOOLEAN]

LEMMA IdleType == Idle \in OweType
BY SMT DEF Idle, OweType, Ptrs

\* One field of such a record at a time.
LEMMA OweFields ==
  ASSUME NEW w \in OweType
  PROVE  /\ \A x \in {"idle", "adv", "compl", "putd", "puto", "link"} : [w EXCEPT !.ph = x] \in OweType
         /\ \A x \in Ptrs : [w EXCEPT !.req = x] \in OweType /\ [w EXCEPT !.cur = x] \in OweType
         /\ \A x \in SUBSET ({"ack", "next", "done"} \X Peers) : [w EXCEPT !.adv = x] \in OweType
         /\ \A x \in SUBSET Token : /\ [w EXCEPT !.c = x] \in OweType /\ [w EXCEPT !.d = x] \in OweType
                                    /\ [w EXCEPT !.o = x] \in OweType /\ [w EXCEPT !.cd = x] \in OweType
                                    /\ [w EXCEPT !.co = x] \in OweType
         /\ \A x \in BOOLEAN : [w EXCEPT !.done = x] \in OweType /\ [w EXCEPT !.sent = x] \in OweType
BY ZenonT(30) DEF OweType

\* What the caller of mod_rq_state() still has to do is a call for request r.
OwesCall(a, r) ==
  \E w \in OweType : /\ owe' = [owe EXCEPT ![a] = w]
                     /\ w = Idle \/ (w.req = r /\ w.ph = "adv")

LEMMA ModOwe ==
  ASSUME NEW a, NEW r \in Reqs, NEW nl, NEW nn, mod_rq_state(a, r, nl, nn)
  PROVE  OwesCall(a, r)
<1> DEFINE c == CompletionPuts(local_rq_state[r], nl, net_rq_state[r], nn)
           d == DonePuts(local_rq_state[r], nl, net_rq_state[r], nn)
           o == Tokens("queued", PeersWhere(net_rq_state[r], nn, QueuedFalls))
           adv == {<<"ack", p>> : p \in PeersWhere(net_rq_state[r], nn, PendingFalls)}
                    \cup {<<"next", p>> : p \in PeersWhere(net_rq_state[r], nn, QueuedFalls)}
                    \cup {<<"done", p>> : p \in PeersWhere(net_rq_state[r], nn, DoneRises)}
           v == [Idle EXCEPT !.ph = "adv", !.req = r, !.adv = adv, !.c = c, !.d = d, !.o = o]
           w == IF c \cup d \cup o \cup adv = {} THEN Idle ELSE v
<1>1. owe' = [owe EXCEPT ![a] = w]
  BY Zenon DEF mod_rq_state
<1>2. c \in SUBSET Token /\ d \in SUBSET Token /\ o \in SUBSET Token /\ r \in Ptrs
  BY PutsType, Zenon DEF Ptrs
<1>3. adv \in SUBSET ({"ack", "next", "done"} \X Peers)
  BY SMT DEF PeersWhere
<1>4. w = Idle \/ w = v
  OBVIOUS
<1> HIDE DEF c, d, o, adv, w
<1> DEFINE x1 == [Idle EXCEPT !.ph = "adv"]
           x2 == [x1 EXCEPT !.req = r]
           x3 == [x2 EXCEPT !.adv = adv]
           x4 == [x3 EXCEPT !.c = c]
           x5 == [x4 EXCEPT !.d = d]
<1>5. v = [x5 EXCEPT !.o = o]
  BY Zenon
<1> HIDE DEF v
<1>6. x2 \in OweType
  BY <1>2, IdleType, OweFields, Zenon
<1>7. x4 \in OweType
  BY <1>2, <1>3, <1>6, OweFields, Zenon
<1>8. v \in OweType
  BY <1>2, <1>5, <1>7, OweFields, Zenon
<1>9. v.req = r /\ v.ph = "adv"
  BY IdleType, SMT DEF OweType, v
<1>10. QED
  BY <1>1, <1>4, <1>8, <1>9, IdleType, Zenon DEF OwesCall

LEMMA ModRq ==
  ASSUME EpochInv, NEW a, NEW r \in Known,
         NEW nl \in SUBSET LocalFlags, NEW nn \in [Peers -> SUBSET NetFlags],
         mod_rq_state(a, r, nl, nn), TleStep, UNCHANGED sub \/ SubMoves,
         UNCHANGED <<req, master_bio, next_write, retryVars, dagtag_sector, prepared, budget>>,
         MentionInv'
  PROVE  EpochInv'
<1> ShapeInv /\ AllocInv /\ FlagInv /\ CountInv /\ SubmitInv /\ WalkInv /\ r \in Reqs /\ HasEpoch(r)
  BY DEF EpochInv, Known
<1>1. CountInv' /\ current_tle_nr' \in Nat /\ current_tle_writes' \in Nat
  BY CountTle
<1>2. owe \in [Actors -> OweType]
  BY Zenon DEF ShapeInv, OweType
<1>3. PICK w \in OweType : /\ owe' = [owe EXCEPT ![a] = w]
                           /\ \/ w = Idle
                              \/ w.req = r /\ w.ph = "adv"
  <2>1. OwesCall(a, r)
    BY ModOwe
  <2>2. QED
    BY <2>1, Zenon DEF OwesCall
<1>4. \A b \in Actors : owe'[b] = owe[b] \/ owe'[b] = w
  BY <1>2, <1>3, SMT
<1>5. owe' \in [Actors -> OweType]
  <2>1. owe' = [owe EXCEPT ![a] = w] /\ w \in OweType
    BY <1>3
  <2>2. QED
    BY <1>2, <2>1, Zenon
<1>6. /\ local_rq_state' = [local_rq_state EXCEPT ![r] = nl]
      /\ net_rq_state' = [net_rq_state EXCEPT ![r] = nn]
  BY DEF mod_rq_state
<1>7. /\ local_rq_state' \in [Reqs -> SUBSET LocalFlags]
      /\ net_rq_state' \in [Reqs -> [Peers -> SUBSET NetFlags]]
  BY <1>6, SMT DEF ShapeInv
<1>8. /\ sub' \in [pc : {"idle", "epoch", "net", "add", "ready", "local", "put"}, bio : Bios \cup {NoBio},
                   req : Ptrs, local : BOOLEAN, rpeer : SUBSET Peers]
      /\ sub'.req = sub.req
      /\ sub'.pc = sub.pc \/ (sub'.pc \in {"add", "ready", "local", "put"} /\ sub.pc \in {"net", "add", "ready", "local"})
  <2>1. CASE UNCHANGED sub
    BY <2>1, Zenon DEF ShapeInv
  <2>2. CASE SubMoves
    <3>1. PICK pc \in {"add", "ready", "local", "put"} :
            sub.pc \in {"net", "add", "ready", "local"} /\ sub' = [sub EXCEPT !.pc = pc]
      BY <2>2 DEF SubMoves
    <3>2. sub \in [pc : {"idle", "epoch", "net", "add", "ready", "local", "put"}, bio : Bios \cup {NoBio},
                   req : Ptrs, local : BOOLEAN, rpeer : SUBSET Peers]
      BY DEF ShapeInv
    <3>3. QED
      BY <3>1, <3>2
  <2>3. QED
    BY <2>1, <2>2
<1>9. ShapeInv'
  BY <1>1, <1>5, <1>7, <1>8, Zenon DEF ShapeInv, OweType, retryVars
<1>10. FlagInv'
  <2>1. SUFFICES ASSUME NEW q \in Reqs, q # r
                 PROVE  local_rq_state'[q] = local_rq_state[q] /\ net_rq_state'[q] = net_rq_state[q]
    BY Zenon DEF FlagInv, HasEpoch
  <2>2. QED
    BY <1>6, <2>1, SMT DEF ShapeInv
<1>11. SubmitInv'
  <2>1. Known' = Known /\ Allocated' = Allocated
    BY KnownSame
  <2>2. r \in Allocated
    BY SMT DEF HasEpoch, Allocated
  <2>3. w.req \in {r, NoReq}
    BY <1>3, SMT DEF Idle
  <2>4. \A b \in Actors : owe'[b].req \in Allocated \cup {NoReq}
    BY <1>4, <2>2, <2>3, Zenon DEF SubmitInv
  <2>5. /\ sub'.pc # "idle" => sub.pc # "idle"
        /\ sub'.pc \in {"net", "add", "ready", "local", "put"} => sub.pc \in {"net", "add", "ready", "local", "put"}
        /\ sub'.pc = "epoch" => sub.pc = "epoch"
    BY <1>8
  <2>6. ASSUME sub.pc = "epoch", req[sub.req].kind = "write"
        PROVE  \A b \in Actors : owe'[b].req # sub.req
    <3>1. sub.req # r /\ sub.req # NoReq /\ \A b \in Actors : owe[b].req # sub.req
      BY <2>6, SMT DEF SubmitInv, HasEpoch, Allocated, Reqs, NoReq
    <3>2. QED
      BY <3>1, <1>4, <2>3, Zenon
  <2>7. QED
    BY <1>8, <2>1, <2>4, <2>5, <2>6, Zenon DEF SubmitInv
<1>12. WalkInv'
  <2>1. /\ w.ph \notin {"putd", "puto", "link"}
        /\ w.ph \in {"adv", "compl"} => w.req \in Reqs
        /\ w.d \cup w.o # {} => w.req \in Reqs
    BY <1>3, SMT DEF Idle
  <2>2. QED
    BY <1>4, <2>1, Zenon DEF WalkInv
<1>13. AllocInv'
  BY KnownSame, Zenon DEF AllocInv
<1>14. QED
  BY <1>1, <1>9, <1>10, <1>11, <1>12, <1>13 DEF EpochInv

(***************************************************************************)
(* The rest of a call, after rq_lock was dropped.                          *)
(***************************************************************************)
OweGood(w) ==
  /\ w \in OweType
  /\ w.ph \in {"putd", "puto", "link"} => w.cur \in Reqs
  /\ w.ph \in {"adv", "compl"} => w.req \in Reqs
  /\ w.d \cup w.o # {} => w.req \in Reqs

LEMMA IdleGood == OweGood(Idle) /\ Idle.req = NoReq
<1>1. Idle.ph = "idle" /\ Idle.d = {} /\ Idle.o = {} /\ Idle.req = NoReq
  BY SMT DEF Idle
<1>2. QED
  BY <1>1, IdleType, Zenon DEF OweGood

LEMMA WalkGood ==
  ASSUME NEW w \in OweType, w.d \cup w.o # {} => w.req \in Reqs,
         NEW r \in Ptrs, NEW d \in SUBSET Token, NEW o \in SUBSET Token,
         d \cup o # {} => r \in Reqs
  PROVE  /\ OweGood(StartWalk(w, r, d, o))
         /\ StartWalk(w, r, d, o).req \in {w.req, NoReq}
<1> DEFINE x1 == [w EXCEPT !.ph = "putd"]
           x2 == [x1 EXCEPT !.cur = r]
           x3 == [x2 EXCEPT !.cd = d]
           x4 == [x3 EXCEPT !.co = o]
           x5 == [x4 EXCEPT !.done = FALSE]
           x == [w EXCEPT !.ph = "putd", !.cur = r, !.cd = d, !.co = o, !.done = FALSE, !.sent = FALSE]
<1>1. x = [x5 EXCEPT !.sent = FALSE]
  BY Zenon
<1>2. x2 \in OweType
  BY OweFields, Zenon
<1>3. x4 \in OweType
  BY <1>2, OweFields, Zenon
<1>4. x \in OweType
  BY <1>1, <1>3, OweFields, Zenon
<1>5. x.req = w.req /\ x.ph = "putd" /\ x.cur = r /\ x.d = w.d /\ x.o = w.o
  BY SMT DEF OweType
<1>6. StartWalk(w, r, d, o) = IF d \cup o = {} THEN Idle ELSE x
  BY Zenon DEF StartWalk
<1> HIDE DEF x
<1>7. d \cup o # {} => OweGood(x)
  BY <1>4, <1>5, Zenon DEF OweGood
<1>8. QED
  BY <1>5, <1>6, <1>7, IdleGood, Zenon

LEMMA FinalGood ==
  ASSUME NEW w \in OweType, w.d \cup w.o # {} => w.req \in Reqs
  PROVE  OweGood(FinalWalk(w)) /\ FinalWalk(w).req \in {w.req, NoReq}
<1> DEFINE x1 == [w EXCEPT !.c = {}]
           x2 == [x1 EXCEPT !.d = {}]
           x == [w EXCEPT !.c = {}, !.d = {}, !.o = {}]
<1>1. x = [x2 EXCEPT !.o = {}]
  BY Zenon
<1>2. x \in OweType
  BY <1>1, OweFields, Zenon
<1>3. x.req = w.req /\ x.d \cup x.o = {}
  BY SMT DEF OweType
<1>4. w.req \in Ptrs /\ w.d \in SUBSET Token /\ w.o \in SUBSET Token
  BY DEF OweType
<1>5. FinalWalk(w) = StartWalk(x, w.req, w.d, w.o)
  BY DEF FinalWalk
<1> HIDE DEF x
<1>6. x.d \cup x.o # {} => x.req \in Reqs
  BY <1>3
<1>7. /\ OweGood(StartWalk(x, w.req, w.d, w.o))
      /\ StartWalk(x, w.req, w.d, w.o).req \in {x.req, NoReq}
  BY <1>2, <1>4, <1>6, WalkGood, Zenon
<1>8. QED
  BY <1>3, <1>5, <1>7, Zenon

LEMMA OweMoves ==
  ASSUME EpochInv, NEW a \in Actors, NEW w, OweGood(w), w.req \in {owe[a].req, NoReq},
         owe' = [owe EXCEPT ![a] = w],
         UNCHANGED <<req, next_write, dagtag_sector, sub, prepared, budget>>,
         current_tle_nr' \in Nat, current_tle_writes' \in Nat,
         retry_writes' \subseteq Reqs, suspended_reqs' \subseteq Reqs,
         master_bio' \in [Reqs -> Bios \cup {NoBio}],
         local_rq_state' \in [Reqs -> SUBSET LocalFlags],
         net_rq_state' \in [Reqs -> [Peers -> SUBSET NetFlags]],
         \A r \in Reqs : r # owe[a].req => master_bio'[r] = master_bio[r],
         FlagInv', CountInv', MentionInv'
  PROVE  EpochInv'
<1> ShapeInv /\ AllocInv /\ SubmitInv /\ WalkInv /\ w \in OweType
  BY DEF EpochInv, OweGood
<1>1. owe \in [Actors -> OweType]
  BY Zenon DEF ShapeInv, OweType
<1>2. owe' \in [Actors -> OweType]
  BY <1>1, Zenon
<1>3. \A b \in Actors : owe'[b] = owe[b] \/ owe'[b] = w
  BY <1>1, SMT
<1>4. ShapeInv'
  BY <1>2, Zenon DEF ShapeInv, OweType
<1>5. WalkInv'
  BY <1>3, Zenon DEF WalkInv, OweGood
<1>6. \A b \in Actors : \E c \in Actors : owe'[b].req \in {owe[c].req, NoReq}
  BY <1>3, Zenon
<1>7. SubmitInv'
  <2>1. Known' = Known /\ Allocated' = Allocated
    BY KnownSame
  <2>2. \A b \in Actors : owe'[b].req \in Allocated \cup {NoReq}
    BY <1>6, Zenon DEF SubmitInv
  <2>3. ASSUME sub.pc = "epoch", req[sub.req].kind = "write"
        PROVE  master_bio'[sub.req] = master_bio[sub.req] /\ \A b \in Actors : owe'[b].req # sub.req
    <3>1. sub.req \in Allocated /\ \A b \in Actors : owe[b].req # sub.req
      BY <2>3, Zenon DEF SubmitInv
    <3>a. sub.req \in Reqs /\ sub.req # NoReq
      BY <3>1 DEF Allocated, Reqs, NoReq
    <3>2. QED
      BY <3>1, <3>a, <1>6, Zenon
  <2>4. QED
    BY <2>1, <2>2, <2>3, Zenon DEF SubmitInv
<1>8. AllocInv'
  BY KnownSame, Zenon DEF AllocInv
<1>9. QED
  BY <1>4, <1>5, <1>7, <1>8 DEF EpochInv

LEMMA MentionSame ==
  ASSUME MentionInv, UNCHANGED req, UNCHANGED mentionVars
  PROVE  MentionInv'
BY KnownSame, MentionGrows

LEMMA FlagSame ==
  ASSUME FlagInv, UNCHANGED <<req, flagVars>>
  PROVE  FlagInv'
BY DEF FlagInv, HasEpoch, flagVars

LEMMA MentionLog ==
  ASSUME MentionInv, UNCHANGED <<req, req_next, netVars, snd>>,
         transfer_log' \subseteq Known, disk_io' \subseteq Known
  PROVE  MentionInv'
<1>1. Known' = Known
  BY KnownSame
<1>2. Packets' = Packets /\ Acks' = Acks /\ Answers' = Answers
  BY <1>1, Zenon DEF Packets, Acks, Answers
<1>3. QED
  BY <1>1, <1>2, Zenon DEF MentionInv, netVars

\* A write that is completed leaves no write of its epoch in the current one.
LEMMA CompleteCount ==
  ASSUME ShapeInv, CountInv, NEW r \in Reqs, UNCHANGED req, TleStep,
         ClosesEpoch(r) => start_new_tl_epoch,
         \A q \in Reqs : q # r => master_bio'[q] = master_bio[q]
  PROVE  CountInv' /\ current_tle_nr' \in Nat /\ current_tle_writes' \in Nat
<1>1. current_tle_nr \in Nat /\ current_tle_writes \in Nat /\ \A q \in Reqs : req[q].epoch \in Nat
  BY SMT DEF ShapeInv
<1>2. /\ current_tle_nr' \in Nat /\ current_tle_writes' \in Nat
      /\ \/ current_tle_nr' = current_tle_nr /\ current_tle_writes' = current_tle_writes
         \/ current_tle_nr' = current_tle_nr + 1
  BY <1>1, SMT DEF TleStep, start_new_tl_epoch, tleVars
<1>3. SUFFICES ASSUME NEW q \in Reqs, req[q].kind = "write", req[q].dagtag > 0
               PROVE  /\ req[q].epoch <= current_tle_nr'
                      /\ req[q].epoch = current_tle_nr' => current_tle_writes' > 0 /\ master_bio'[q] # NoBio
  BY <1>2, Zenon DEF CountInv
<1>4. /\ req[q].epoch <= current_tle_nr
      /\ req[q].epoch = current_tle_nr => current_tle_writes > 0 /\ master_bio[q] # NoBio
  BY <1>3, Zenon DEF CountInv
<1>5. CASE q = r
  <2>1. req[q].epoch = current_tle_nr => current_tle_nr' = current_tle_nr + 1
    BY <1>1, <1>3, <1>4, <1>5, SMT DEF ClosesEpoch, start_new_tl_epoch
  <2>2. QED
    BY <1>1, <1>2, <1>4, <2>1, SMT
<1>6. CASE q # r
  <2>1. master_bio'[q] = master_bio[q]
    BY <1>6
  <2>2. QED
    BY <1>1, <1>2, <1>4, <2>1, SMT
<1>7. QED
  BY <1>5, <1>6

\* What a step after the completion leaves alone.
LEMMA WalkMoves ==
  ASSUME EpochInv, NEW a \in Actors, NEW w, OweGood(w), w.req \in {owe[a].req, NoReq},
         owe' = [owe EXCEPT ![a] = w], UNCHANGED <<req, bioVars, local_rq_state, next_write, retryVars, tleVars>>,
         UNCHANGED envVars,
         net_rq_state' \in [Reqs -> [Peers -> SUBSET NetFlags]], FlagInv', MentionInv'
  PROVE  EpochInv'
<1>1. ShapeInv /\ CountInv
  BY DEF EpochInv
<1>2. UNCHANGED <<req, next_write, dagtag_sector, sub, prepared, budget, master_bio, local_rq_state,
                  retry_writes, suspended_reqs, current_tle_nr, current_tle_writes>>
  BY DEF envVars, connVars, bioVars, retryVars, tleVars
<1>3. CountInv' /\ current_tle_nr' \in Nat /\ current_tle_writes' \in Nat
  BY <1>1, CountTle DEF TleStep, bioVars
<1>4. /\ retry_writes' \subseteq Reqs /\ suspended_reqs' \subseteq Reqs
      /\ master_bio' \in [Reqs -> Bios \cup {NoBio}]
      /\ local_rq_state' \in [Reqs -> SUBSET LocalFlags]
      /\ \A r \in Reqs : r # owe[a].req => master_bio'[r] = master_bio[r]
  BY <1>1, <1>2, Zenon DEF ShapeInv
<1>5. QED
  BY <1>2, <1>3, <1>4, OweMoves, ZenonT(30)

LEMMA OosReadyType ==
  ASSUME ShapeInv, NEW r \in Reqs, NEW bm
  PROVE  /\ OosReady(r, bm) \in [Peers -> SUBSET NetFlags]
         /\ \A p \in Peers : OosReady(r, bm)[p] # {} => net_rq_state[r][p] # {}
<1> DEFINE s(p) == net_rq_state[r][p]
<1>1. \A p \in Peers : s(p) \in SUBSET NetFlags
  <2>1. net_rq_state \in [Reqs -> [Peers -> SUBSET NetFlags]]
    BY DEF ShapeInv
  <2>2. net_rq_state[r] \in [Peers -> SUBSET NetFlags]
    BY <2>1, Zenon
  <2>3. QED
    BY <2>2, Zenon
<1>2. "READY" \in NetFlags
  BY DEF NetFlags, NET_MASK
<1>3. \A p \in Peers : OosReady(r, bm)[p] \in {s(p), s(p) \cup {"READY"}, (s(p) \ {"PENDING_OOS"}) \cup {"READY"}}
  BY Zenon DEF OosReady
<1>4. \A p \in Peers : "PENDING_OOS" \notin s(p) => OosReady(r, bm)[p] = s(p)
  BY Zenon DEF OosReady
<1>5. OosReady(r, bm) = [p \in Peers |-> OosReady(r, bm)[p]]
  BY Zenon DEF OosReady
<1> HIDE DEF s
<1>6. \A p \in Peers : OosReady(r, bm)[p] \in SUBSET NetFlags
  BY <1>1, <1>2, <1>3, SMTT(30)
<1>7. \A p \in Peers : OosReady(r, bm)[p] # {} => s(p) # {}
  BY <1>4, Zenon
<1>8. QED
  BY <1>5, <1>6, <1>7, Zenon DEF s

\* The rest of a call of mod_rq_state().
LEMMA ProgressInv ==
  ASSUME LeastExists, EpochInv, NEW a \in Actors, Progress(a) \/ UpdateLog(a), UNCHANGED envVars
  PROVE  EpochInv'
\* advance_cache_ptr() finds requests on the transfer log.
<1>1. CASE AdvancePointers(a)
  <2> USE <1>1
  <2> DEFINE x == [owe[a] EXCEPT !.ph = "compl"]
             w == [owe[a] EXCEPT !.ph = "compl", !.adv = {}]
  <2> ShapeInv /\ FlagInv /\ CountInv /\ MentionInv /\ WalkInv
    BY DEF EpochInv
  <2>1. owe[a] \in OweType /\ owe[a].ph = "adv" /\ owe' = [owe EXCEPT ![a] = w]
    BY Zenon DEF ShapeInv, OweType, AdvancePointers
  <2>2. w = [x EXCEPT !.adv = {}]
    BY Zenon
  <2>3. w \in OweType
    BY <2>1, <2>2, OweFields, Zenon
  <2>4. w.ph = "compl" /\ w.req = owe[a].req /\ w.d = owe[a].d /\ w.o = owe[a].o
    BY <2>1, SMT DEF OweType
  <2> HIDE DEF w
  <2>5. OweGood(w)
    BY <2>1, <2>3, <2>4, Zenon DEF OweGood, WalkInv
  <2>6. MentionInv'
    <3>1. req_next' \in [Peers -> Known \cup {NoReq}]
      <4> DEFINE S(p) == {q \in {j \in transfer_log : QueuedTo(p, j)} : q > owe[a].req}
      <4>1. \A p \in Peers : S(p) # {} => Min(S(p)) \in Known
        <5>1. SUFFICES ASSUME NEW p \in Peers, S(p) # {}
                       PROVE  Min(S(p)) \in Known
          OBVIOUS
        <5>2. S(p) \subseteq Known
          BY Zenon DEF MentionInv
        <5>3. S(p) \subseteq Reqs
          BY <5>2, Zenon DEF Known
        <5>4. Min(S(p)) \in S(p)
          BY <5>1, <5>3, Zenon DEF LeastExists
        <5>5. QED
          BY <5>2, <5>4, ZenonT(30)
      <4>2. req_next' = [p \in Peers |-> IF <<"next", p>> \in owe[a].adv /\ req_next[p] = owe[a].req
                                         THEN IF S(p) = {} THEN NoReq ELSE Min(S(p)) ELSE req_next[p]]
        BY Zenon DEF AdvancePointers, NextOnLog
      <4> HIDE DEF S
      <4>3. req_next \in [Peers -> Known \cup {NoReq}]
        BY DEF MentionInv
      <4>4. QED
        BY <4>1, <4>2, <4>3, Zenon
    <3>2. UNCHANGED <<req, transfer_log, disk_io, wire, ctl, replies, peer, snd>>
      BY Zenon DEF AdvancePointers, envVars, netVars, diskVars, logVars
    <3>3. Known' = Known
      BY <3>2, KnownSame
    <3>4. Packets' = Packets /\ Acks' = Acks /\ Answers' = Answers
      BY <3>3, Zenon DEF Packets, Acks, Answers
    <3>5. QED
      BY <3>1, <3>2, <3>3, <3>4, Zenon DEF MentionInv
  <2>7. UNCHANGED <<req, bioVars, flagVars, logVars, retryVars, tleVars>>
    BY DEF AdvancePointers
  <2>8. CountInv' /\ current_tle_nr' \in Nat /\ current_tle_writes' \in Nat
    BY <2>7, CountTle DEF TleStep, bioVars
  <2>9. FlagInv'
    BY <2>7, FlagSame, SMTT(30)
  <2>10. QED
    BY <2>1, <2>4, <2>5, <2>6, <2>7, <2>8, <2>9, OweMoves, Zenon
       DEF ShapeInv, bioVars, flagVars, logVars, retryVars, tleVars, envVars, connVars
\* drbd_req_put_completion_ref(): drbd_req_complete() closes the epoch.
<1>2. CASE drbd_req_put_completion_ref(a)
  <2> USE <1>2
  <2> DEFINE w == [owe[a] EXCEPT !.c = {}]
             r == owe[a].req
  <2> ShapeInv /\ FlagInv /\ CountInv /\ MentionInv /\ WalkInv
    BY DEF EpochInv
  <2>1. owe[a] \in OweType /\ owe[a].ph = "compl"
    BY Zenon DEF ShapeInv, OweType, drbd_req_put_completion_ref
  <2>2. w \in OweType
    BY <2>1, OweFields, Zenon
  <2>3. w.req = r /\ w.d = owe[a].d /\ w.o = owe[a].o
    BY <2>1, SMT DEF OweType
  <2>4. r \in Reqs /\ (w.d \cup w.o # {} => r \in Reqs) /\ r \in Ptrs
    BY <2>1, Zenon DEF WalkInv, Ptrs
  <2>5. /\ UNCHANGED <<req, net_rq_state, logVars, ptrVars>>
        /\ UNCHANGED <<bioVars, local_rq_state, tleVars>> \/ drbd_req_complete(r)
    BY Zenon DEF drbd_req_put_completion_ref
  <2>6. /\ retry_writes' \in {retry_writes, retry_writes \cup {r}}
        /\ suspended_reqs' \in {suspended_reqs, suspended_reqs \cup {r}}
    BY Zenon DEF drbd_req_put_completion_ref, drbd_restart_request, retryVars
  <2>7. \/ owe' = [owe EXCEPT ![a] = FinalWalk(w)]
        \/ owe' = [owe EXCEPT ![a] = StartWalk(w, r, {<<"compl", 0>>}, {})]
    BY Zenon DEF drbd_req_put_completion_ref
  <2> HIDE DEF w
  <2>8. PICK x : OweGood(x) /\ x.req \in {r, NoReq} /\ owe' = [owe EXCEPT ![a] = x]
    <3>1. CASE owe' = [owe EXCEPT ![a] = FinalWalk(w)]
      <4>1. OweGood(FinalWalk(w)) /\ FinalWalk(w).req \in {w.req, NoReq}
        BY <2>2, <2>3, <2>4, FinalGood
      <4>2. QED
        BY <2>3, <3>1, <4>1, Zenon
    <3>2. CASE owe' = [owe EXCEPT ![a] = StartWalk(w, r, {<<"compl", 0>>}, {})]
      <4>1. {<<"compl", 0>>} \in SUBSET Token /\ {} \in SUBSET Token
        BY SMTT(30) DEF Token
      <4>2. /\ OweGood(StartWalk(w, r, {<<"compl", 0>>}, {}))
            /\ StartWalk(w, r, {<<"compl", 0>>}, {}).req \in {w.req, NoReq}
        BY <2>2, <2>3, <2>4, <4>1, WalkGood
      <4>3. QED
        BY <2>3, <3>2, <4>2, Zenon
    <3>3. QED
      BY <2>7, <3>1, <3>2
  <2>9. TleStep /\ (master_bio' # master_bio /\ ClosesEpoch(r) => start_new_tl_epoch)
    BY <2>5, Zenon DEF drbd_req_complete, TleStep, bioVars
  <2>10. \/ master_bio' = master_bio
         \/ master_bio' = [master_bio EXCEPT ![r] = NoBio]
    BY <2>5, Zenon DEF drbd_req_complete, bioVars
  <2>11. \/ local_rq_state' = local_rq_state
         \/ local_rq_state' = [local_rq_state EXCEPT ![r] = @ \cup {"POSTPONED"}]
    BY <2>5, Zenon DEF drbd_req_complete
  <2> HIDE DEF r
  <2>12. /\ master_bio' \in [Reqs -> Bios \cup {NoBio}]
         /\ \A q \in Reqs : q # r => master_bio'[q] = master_bio[q]
    <3>1. master_bio \in [Reqs -> Bios \cup {NoBio}] /\ r \in Reqs
      BY <2>4 DEF ShapeInv
    <3>2. CASE master_bio' = master_bio
      BY <3>1, <3>2
    <3>3. CASE master_bio' = [master_bio EXCEPT ![r] = NoBio]
      BY <3>1, <3>3
    <3>4. QED
      BY <2>10, <3>2, <3>3, Zenon
  <2>13. CountInv' /\ current_tle_nr' \in Nat /\ current_tle_writes' \in Nat
    <3>1. CASE master_bio' = master_bio
      BY <2>5, <2>9, <3>1, CountTle, Zenon
    <3>2. CASE master_bio' # master_bio
      BY <2>4, <2>5, <2>9, <2>12, <3>2, CompleteCount, Zenon
    <3>3. QED
      BY <3>1, <3>2
  <2>14. /\ local_rq_state' \in [Reqs -> SUBSET LocalFlags]
         /\ \A q \in Reqs : local_rq_state'[q] \cap LOCAL_MASK = local_rq_state[q] \cap LOCAL_MASK
    <3>1. local_rq_state \in [Reqs -> SUBSET LocalFlags] /\ r \in Reqs
      BY <2>4 DEF ShapeInv
    <3>2. "POSTPONED" \in LocalFlags /\ "POSTPONED" \notin LOCAL_MASK
      BY DEF LocalFlags, LOCAL_MASK
    <3>3. CASE local_rq_state' = local_rq_state
      BY <3>1, <3>3
    <3>4. CASE local_rq_state' = [local_rq_state EXCEPT ![r] = @ \cup {"POSTPONED"}]
      BY <3>1, <3>2, <3>4
    <3>5. QED
      BY <2>11, <3>3, <3>4, Zenon
  <2>15. FlagInv'
    BY <2>5, <2>14, Zenon DEF FlagInv, HasEpoch
  <2>16. MentionInv'
    BY <2>5, MentionSame, Zenon DEF mentionVars, envVars, netVars, diskVars, logVars, ptrVars
  <2>17. retry_writes' \subseteq Reqs /\ suspended_reqs' \subseteq Reqs
    <3>1. retry_writes \subseteq Reqs /\ suspended_reqs \subseteq Reqs
      BY DEF ShapeInv
    <3>2. QED
      BY <2>4, <2>6, <3>1, Zenon
  <2>18. UNCHANGED <<req, next_write, dagtag_sector, sub, prepared, budget>>
    BY <2>5 DEF logVars, envVars, connVars
  <2>19. net_rq_state' \in [Reqs -> [Peers -> SUBSET NetFlags]]
    BY <2>5, SMTT(30) DEF ShapeInv
  <2>20. QED
    BY <2>8, <2>12, <2>13, <2>14, <2>15, <2>16, <2>17, <2>18, <2>19, OweMoves, ZenonT(30) DEF r
\* drbd_req_done() changes only flags that are there.
<1>3. CASE PutDone(a)
  <2> USE <1>3
  <2> DEFINE r == owe[a].cur
             z == owe[a].cd # {} /\ done_ref[r] = Cardinality(owe[a].cd)
             x1 == [owe[a] EXCEPT !.ph = "puto"]
             x2 == [x1 EXCEPT !.cd = {}]
             x3 == [x2 EXCEPT !.done = z]
             w == [owe[a] EXCEPT !.ph = "puto", !.cd = {}, !.done = z, !.co = @ \cup TokenIf(z, "done")]
  <2> ShapeInv /\ FlagInv /\ MentionInv /\ WalkInv
    BY DEF EpochInv
  <2>1. owe[a] \in OweType /\ owe[a].ph = "putd" /\ owe \in [Actors -> OweType]
    BY Zenon DEF ShapeInv, OweType, PutDone
  <2>2. r \in Reqs
    BY <2>1, Zenon DEF WalkInv
  <2>3. owe' = [owe EXCEPT ![a] = w]
    BY ZenonT(30) DEF PutDone
  <2>4. UNCHANGED <<req, bioVars, local_rq_state, next_write, retryVars, tleVars, ptrVars, logVars>>
    BY ZenonT(30) DEF PutDone, logVars
  <2>5. net_rq_state' = net_rq_state \/ \E bm : net_rq_state' = [net_rq_state EXCEPT ![r] = OosReady(r, bm)]
    BY Zenon DEF PutDone, drbd_req_done
  <2>6. z \in BOOLEAN /\ owe[a].co \cup TokenIf(z, "done") \in SUBSET Token
    BY <2>1, TokenIfType, SMT DEF OweType
  <2> HIDE DEF z, r
  <2>7. w = [x3 EXCEPT !.co = owe[a].co \cup TokenIf(z, "done")]
    BY <2>1, SMT DEF OweType
  <2>8. x2 \in OweType
    BY <2>1, OweFields, Zenon
  <2>9. x3 \in OweType
    BY <2>6, <2>8, OweFields, Zenon
  <2> HIDE DEF x3
  <2>10. w \in OweType
    BY <2>6, <2>7, <2>9, OweFields, Zenon
  <2>11. w.ph = "puto" /\ w.req = owe[a].req /\ w.cur = owe[a].cur /\ w.d = owe[a].d /\ w.o = owe[a].o
    BY <2>1, SMT DEF OweType
  <2> HIDE DEF w
  <2>12. OweGood(w) /\ w.req \in {owe[a].req, NoReq}
    BY <2>1, <2>2, <2>10, <2>11, Zenon DEF OweGood, WalkInv, r
  <2>13. /\ net_rq_state' \in [Reqs -> [Peers -> SUBSET NetFlags]]
         /\ \A q \in Reqs, p \in Peers : net_rq_state'[q][p] # {} => net_rq_state[q][p] # {}
    <3>0. net_rq_state \in [Reqs -> [Peers -> SUBSET NetFlags]]
      BY DEF ShapeInv
    <3>1. CASE net_rq_state' = net_rq_state
      BY <3>0, <3>1
    <3>2. ASSUME NEW bm, net_rq_state' = [net_rq_state EXCEPT ![r] = OosReady(r, bm)]
          PROVE  <2>13!:
      <4>1. /\ OosReady(r, bm) \in [Peers -> SUBSET NetFlags]
            /\ \A p \in Peers : OosReady(r, bm)[p] # {} => net_rq_state[r][p] # {}
        BY <2>2, OosReadyType
      <4>2. QED
        BY <2>2, <3>0, <3>2, <4>1, Zenon
    <3>3. QED
      BY <2>5, <3>1, <3>2
  <2>14. FlagInv'
    BY <2>4, <2>13, Zenon DEF FlagInv, HasEpoch
  <2>15. MentionInv'
    BY <2>4, MentionSame, Zenon DEF mentionVars, envVars, netVars, diskVars, logVars, ptrVars
  <2>16. QED
    BY <2>3, <2>4, <2>12, <2>13, <2>14, <2>15, WalkMoves, ZenonT(30)
<1>4. CASE PutOosSend(a)
  <2> USE <1>4
  <2> DEFINE z == owe[a].co # {} /\ oos_send_ref[owe[a].cur] = Cardinality(owe[a].co)
             x1 == [owe[a] EXCEPT !.ph = "link"]
             x2 == [x1 EXCEPT !.co = {}]
             w == [owe[a] EXCEPT !.ph = "link", !.co = {}, !.sent = z]
  <2> ShapeInv /\ FlagInv /\ MentionInv /\ WalkInv
    BY DEF EpochInv
  <2>1. owe[a] \in OweType /\ owe[a].ph = "puto" /\ (owe[a].d \cup owe[a].o # {} => owe[a].req \in Reqs)
    BY Zenon DEF ShapeInv, OweType, PutOosSend, WalkInv
  <2>2. owe' = [owe EXCEPT ![a] = w] \/ owe' = [owe EXCEPT ![a] = FinalWalk(owe[a])]
    BY Zenon DEF PutOosSend
  <2>3. UNCHANGED <<req, bioVars, flagVars, logVars, retryVars, tleVars, ptrVars>>
    BY SMTT(30) DEF PutOosSend
  <2>4. z \in BOOLEAN
    OBVIOUS
  <2> HIDE DEF z
  <2>5. w = [x2 EXCEPT !.sent = z]
    BY Zenon
  <2>6. w \in OweType
    BY <2>1, <2>4, <2>5, OweFields, Zenon
  <2>7. w.ph = "link" /\ w.req = owe[a].req /\ w.cur = owe[a].cur /\ w.d = owe[a].d /\ w.o = owe[a].o
    BY <2>1, SMT DEF OweType
  <2> HIDE DEF w
  <2>8. OweGood(w) /\ w.req \in {owe[a].req, NoReq}
    BY <2>1, <2>6, <2>7, Zenon DEF OweGood, WalkInv
  <2>9. OweGood(FinalWalk(owe[a])) /\ FinalWalk(owe[a]).req \in {owe[a].req, NoReq}
    BY <2>1, FinalGood, Zenon
  <2>10. FlagInv' /\ net_rq_state' \in [Reqs -> [Peers -> SUBSET NetFlags]]
    BY <2>3, FlagSame DEF ShapeInv, flagVars
  <2>11. MentionInv'
    BY <2>3, MentionSame, Zenon DEF mentionVars, envVars, netVars, diskVars, logVars, ptrVars
  <2>12. UNCHANGED <<req, bioVars, local_rq_state, next_write, retryVars, tleVars>>
    BY <2>3 DEF flagVars, logVars
  <2>13. QED
    BY <2>2, <2>8, <2>9, <2>10, <2>11, <2>12, WalkMoves, Zenon
\* drbd_put_ref_tl_walk() under tl_update_lock: only removes from the log.
<1>5. CASE UpdateLog(a)
  <2> USE <1>5
  <2> DEFINE next == next_write[owe[a].cur]
             d == TokenIf(owe[a].done, "prev")
             o == TokenIf(owe[a].sent, "prev")
             w == StartWalk(owe[a], next, d, o)
  <2> ShapeInv /\ FlagInv /\ MentionInv /\ WalkInv
    BY DEF EpochInv
  <2>1. /\ owe[a] \in OweType /\ owe[a].ph = "link" /\ (owe[a].d \cup owe[a].o # {} => owe[a].req \in Reqs)
        /\ owe[a].cur \in Reqs
    BY Zenon DEF ShapeInv, OweType, UpdateLog, WalkInv
  <2>2. \/ next # NoReq /\ owe' = [owe EXCEPT ![a] = w]
        \/ owe' = [owe EXCEPT ![a] = FinalWalk(owe[a])]
    BY Zenon DEF UpdateLog
  <2>3. /\ UNCHANGED <<req, bioVars, flagVars, next_write, retryVars, tleVars, ptrVars>>
        /\ transfer_log' \subseteq transfer_log
    BY Zenon DEF UpdateLog
  <2>4. next \in Ptrs /\ d \in SUBSET Token /\ o \in SUBSET Token
    BY <2>1, TokenIfType, ZenonT(30) DEF ShapeInv
  <2> HIDE DEF next, d, o
  <2>5. next # NoReq => OweGood(w) /\ w.req \in {owe[a].req, NoReq}
    <3>1. next # NoReq => next \in Reqs
      BY <2>4, Zenon DEF Ptrs
    <3>2. QED
      BY <2>1, <2>4, <3>1, WalkGood
  <2>6. OweGood(FinalWalk(owe[a])) /\ FinalWalk(owe[a]).req \in {owe[a].req, NoReq}
    BY <2>1, FinalGood, Zenon
  <2> HIDE DEF w
  <2>7. FlagInv' /\ net_rq_state' \in [Reqs -> [Peers -> SUBSET NetFlags]]
    BY <2>3, FlagSame DEF ShapeInv, flagVars
  <2>8. MentionInv'
    <3>1. transfer_log' \subseteq Known /\ disk_io' \subseteq Known
      BY <2>3, Zenon DEF MentionInv, envVars, diskVars
    <3>2. QED
      BY <2>3, <3>1, MentionLog, Zenon DEF envVars, ptrVars
  <2>9. UNCHANGED <<req, bioVars, local_rq_state, next_write, retryVars, tleVars>>
    BY <2>3, SMTT(30) DEF flagVars
  <2>10. QED
    BY <2>2, <2>5, <2>6, <2>7, <2>8, <2>9, WalkMoves, Zenon
<1>6. QED
  BY <1>1, <1>2, <1>3, <1>4, <1>5 DEF Progress

(***************************************************************************)
(* The senders and the peers.                                              *)
(***************************************************************************)
SndType == [pc : {"idle", "barrier", "send", "sent"}, req : Known \cup {NoReq},
            seen_any_write_yet : BOOLEAN, current_epoch_nr : Int,
            current_epoch_writes : Int, seen_dagtag : Int]
PeerType == [active : SUBSET Known, size : Int, failed : BOOLEAN, data : [Blocks -> Ptrs]]
BudgetType == [peers : SUBSET Peers, bios : SUBSET Bios, reqs : 0 .. MaxReqs, loss : Int,
               mode : Int, disk : Int, neg : Int, force : BOOLEAN, suspend : BOOLEAN,
               races : SUBSET {"preempt", "resume", "abort", "reply"}]

\* A request in the hand of a sender.
SndGood(x) == x \in SndType /\ (x.pc \in {"send", "sent"} => x.req # NoReq)

LEMMA MentionTypes ==
  ASSUME MentionInv
  PROVE  /\ wire \in [Peers -> Seq(Packets)] /\ ctl \in [Peers -> Seq(Acks)]
         /\ replies \in [Peers -> Seq(Answers)] /\ peer \in [Peers -> PeerType]
         /\ snd \in [Peers -> SndType] /\ \A p \in Peers : SndGood(snd[p])
         /\ req_next \in [Peers -> Known \cup {NoReq}]
         /\ transfer_log \subseteq Known /\ disk_io \subseteq Known
<1>1. /\ wire \in [Peers -> Seq(Packets)] /\ ctl \in [Peers -> Seq(Acks)]
      /\ replies \in [Peers -> Seq(Answers)] /\ peer \in [Peers -> PeerType]
      /\ snd \in [Peers -> SndType] /\ (\A p \in Peers : snd[p].pc \in {"send", "sent"} => snd[p].req # NoReq)
      /\ req_next \in [Peers -> Known \cup {NoReq}]
      /\ transfer_log \subseteq Known /\ disk_io \subseteq Known
  BY Zenon DEF MentionInv, PeerType, SndType
<1>2. \A p \in Peers : SndGood(snd[p])
  BY <1>1, Zenon DEF SndGood
<1>3. QED
  BY <1>1, <1>2, ZenonT(30)

LEMMA MentionTo ==
  ASSUME UNCHANGED req,
         transfer_log' \subseteq Known, disk_io' \subseteq Known,
         req_next' \in [Peers -> Known \cup {NoReq}],
         wire' \in [Peers -> Seq(Packets)], ctl' \in [Peers -> Seq(Acks)],
         replies' \in [Peers -> Seq(Answers)], peer' \in [Peers -> PeerType],
         snd' \in [Peers -> SndType], \A p \in Peers : SndGood(snd'[p])
  PROVE  MentionInv'
<1>1. Known' = Known
  BY KnownSame
<1>2. Packets' = Packets /\ Acks' = Acks /\ Answers' = Answers
  BY <1>1, Zenon DEF Packets, Acks, Answers
<1>3. \A p \in Peers : snd'[p].pc \in {"send", "sent"} => snd'[p].req # NoReq
  BY Zenon DEF SndGood
<1>4. QED
  BY <1>1, <1>2, <1>3, Zenon DEF MentionInv, PeerType, SndType

LEMMA SndMoves ==
  ASSUME MentionInv, NEW p \in Peers, NEW x, SndGood(x), snd' = [snd EXCEPT ![p] = x]
  PROVE  snd' \in [Peers -> SndType] /\ \A q \in Peers : SndGood(snd'[q])
<1>1. snd \in [Peers -> SndType] /\ \A q \in Peers : SndGood(snd[q])
  BY MentionTypes
<1>2. x \in SndType
  BY DEF SndGood
<1>3. \A q \in Peers : snd'[q] = snd[q] \/ snd'[q] = x
  BY <1>1, SMT
<1>4. QED
  BY <1>1, <1>2, <1>3, Zenon

LEMMA SndFields ==
  ASSUME NEW w \in SndType
  PROVE  /\ \A x \in {"idle", "barrier", "send", "sent"} : [w EXCEPT !.pc = x] \in SndType
         /\ \A x \in Known \cup {NoReq} : [w EXCEPT !.req = x] \in SndType
         /\ \A x \in BOOLEAN : [w EXCEPT !.seen_any_write_yet = x] \in SndType
         /\ \A x \in Int : /\ [w EXCEPT !.current_epoch_nr = x] \in SndType
                           /\ [w EXCEPT !.current_epoch_writes = x] \in SndType
                           /\ [w EXCEPT !.seen_dagtag = x] \in SndType
BY Zenon DEF SndType

LEMMA PeerFields ==
  ASSUME NEW w \in PeerType
  PROVE  /\ \A x \in SUBSET Known : [w EXCEPT !.active = x] \in PeerType
         /\ \A x \in Int : [w EXCEPT !.size = x] \in PeerType
         /\ \A x \in BOOLEAN : [w EXCEPT !.failed = x] \in PeerType
         /\ \A x \in [Blocks -> Ptrs] : [w EXCEPT !.data = x] \in PeerType
BY Zenon DEF PeerType

LEMMA KnownFields ==
  ASSUME ShapeInv, NEW r \in Known
  PROVE  r \in Reqs /\ req[r].kind \in {"write", "read", "flush"} /\ req[r].epoch \in Int
<1>1. r \in Reqs /\ req[r].kind \in {"write", "read", "flush"}
  BY SMT DEF Known, HasEpoch
<1>2. QED
  BY <1>1, SMT DEF ShapeInv

LEMMA BudgetFields ==
  ASSUME NEW b \in BudgetType, NEW x \in Int
  PROVE  /\ [b EXCEPT !.loss = x] \in BudgetType /\ [b EXCEPT !.loss = x].reqs = b.reqs
         /\ [b EXCEPT !.mode = x] \in BudgetType /\ [b EXCEPT !.mode = x].reqs = b.reqs
         /\ [b EXCEPT !.disk = x] \in BudgetType /\ [b EXCEPT !.disk = x].reqs = b.reqs
         /\ [b EXCEPT !.neg = x] \in BudgetType /\ [b EXCEPT !.neg = x].reqs = b.reqs
<1>1. /\ [b EXCEPT !.loss = x] \in BudgetType /\ [b EXCEPT !.mode = x] \in BudgetType
      /\ [b EXCEPT !.disk = x] \in BudgetType /\ [b EXCEPT !.neg = x] \in BudgetType
  BY Zenon DEF BudgetType
<1>2. /\ [b EXCEPT !.loss = x].reqs = b.reqs /\ [b EXCEPT !.mode = x].reqs = b.reqs
      /\ [b EXCEPT !.disk = x].reqs = b.reqs /\ [b EXCEPT !.neg = x].reqs = b.reqs
  BY SMT DEF BudgetType
<1>3. QED
  BY <1>1, <1>2

LEMMA EnvInv ==
  ASSUME EpochInv, UNCHANGED rsVars, UNCHANGED <<dagtag_sector, sub, prepared>>,
         budget' \in BudgetType, budget'.reqs = budget.reqs, MentionInv'
  PROVE  EpochInv'
<1>1. /\ TleStep
      /\ UNCHANGED <<req, master_bio, flagVars, next_write, owe, sub, prepared, dagtag_sector,
                     retry_writes, suspended_reqs>>
  BY SMTT(30) DEF rsVars, TleStep, bioVars, logVars, retryVars
<1>2. retry_writes' \subseteq Reqs /\ suspended_reqs' \subseteq Reqs
  BY <1>1 DEF EpochInv, ShapeInv
<1>3. QED
  BY <1>1, <1>2, Quiet, Zenon DEF BudgetType

LEMMA BudgetTyped ==
  ASSUME EpochInv
  PROVE  budget \in BudgetType
BY Zenon DEF EpochInv, ShapeInv, BudgetType

LEMMA BarrierTyped ==
  ASSUME MentionInv, NEW p \in Peers, NEW epoch \in Int
  PROVE  /\ BarrierIfDue(p, epoch) \in Seq(Packets)
         /\ AfterBarrier(p, epoch) \in SndType
         /\ AfterBarrier(p, epoch).req = snd[p].req
<1>1. snd[p] \in SndType
  BY MentionTypes
<1>2. BarrierPacket(p) \in Packets
  <2>1. snd[p].current_epoch_nr \in Int
    BY <1>1 DEF SndType
  <2>2. QED
    BY <2>1, Zenon DEF BarrierPacket, Packets
<1>3. <<BarrierPacket(p)>> \in Seq(Packets) /\ <<>> \in Seq(Packets)
  BY <1>2, SeqMakes, Zenon
<1>4. BarrierIfDue(p, epoch) \in {<<BarrierPacket(p)>>, <<>>}
  BY Zenon DEF BarrierIfDue
<1> DEFINE x == [snd[p] EXCEPT !.current_epoch_nr = epoch]
           y == [snd[p] EXCEPT !.current_epoch_nr = epoch, !.current_epoch_writes = 0]
<1>5. y = [x EXCEPT !.current_epoch_writes = 0]
  BY Zenon
<1>6. 0 \in Int
  BY SMT
<1>7. y \in SndType
  BY <1>1, <1>5, <1>6, SndFields, Zenon
<1>8. y.req = snd[p].req
  BY <1>1, SMT DEF SndType
<1>9. AfterBarrier(p, epoch) \in {y, snd[p]}
  BY Zenon DEF AfterBarrier
<1> HIDE DEF y
<1>10. QED
  BY <1>1, <1>3, <1>4, <1>7, <1>8, <1>9, Zenon

LEMMA SequenceMoves ==
  ASSUME NEW S, NEW f \in [Peers -> Seq(S)], NEW p \in Peers
  PROVE  /\ \A t \in Seq(S) : [f EXCEPT ![p] = @ \o t] \in [Peers -> Seq(S)]
         /\ \A m \in S : [f EXCEPT ![p] = Append(@, m)] \in [Peers -> Seq(S)]
         /\ f[p] # <<>> => Head(f[p]) \in S /\ [f EXCEPT ![p] = Tail(@)] \in [Peers -> Seq(S)]
         /\ [f EXCEPT ![p] = <<>>] \in [Peers -> Seq(S)]
<1>1. f[p] \in Seq(S)
  OBVIOUS
<1>2. <<>> \in Seq(S) /\ \A t \in Seq(S) : f[p] \o t \in Seq(S)
  BY <1>1, SeqMakes, Zenon
<1>3. \A m \in S : Append(f[p], m) \in Seq(S)
  BY <1>1, SMT
<1>4. f[p] # <<>> => Head(f[p]) \in S /\ Tail(f[p]) \in Seq(S)
  BY <1>1, SMT
<1>5. \A t \in Seq(S) : [f EXCEPT ![p] = t] \in [Peers -> Seq(S)]
  BY Zenon
<1>6. QED
  BY <1>1, <1>2, <1>3, <1>4, <1>5, Zenon

\* Acks and answers name requests that have their epoch.
LEMMA AckTyped ==
  ASSUME MentionInv, NEW p \in Peers, NEW m \in Acks, NEW c, SendAck(p, c, m)
  PROVE  ctl' \in [Peers -> Seq(Acks)]
<1>1. ctl \in [Peers -> Seq(Acks)]
  BY MentionTypes
<1>2. ctl' \in {ctl, [ctl EXCEPT ![p] = Append(@, m)]}
  BY Zenon DEF SendAck
<1>3. [ctl EXCEPT ![p] = Append(@, m)] \in [Peers -> Seq(Acks)]
  BY <1>1, SequenceMoves
<1>4. QED
  BY <1>1, <1>2, <1>3, Zenon

LEMMA AckOf ==
  ASSUME NEW r \in Known
  PROVE  /\ \A t \in {"write", "sis", "recv", "neg"} : Ack(t, r) \in Acks
         /\ \A t \in {"data", "negdata"} : Ack(t, r) \in Answers
<1>1. 0 \in Int
  BY SMT
<1>2. QED
  BY <1>1, Zenon DEF Ack, Acks, Answers

LEMMA WireHead ==
  ASSUME MentionInv, NEW p \in Peers, wire[p] # <<>>, wire' = [wire EXCEPT ![p] = Tail(@)]
  PROVE  /\ wire' \in [Peers -> Seq(Packets)]
         /\ Head(wire[p]) \in Packets
         /\ Head(wire[p]).type # "barrier" => Head(wire[p]).req \in Known
         /\ Head(wire[p]).nr \in Int
<1>1. wire \in [Peers -> Seq(Packets)]
  BY MentionTypes
<1>2. wire' \in [Peers -> Seq(Packets)] /\ Head(wire[p]) \in Packets
  BY <1>1, SequenceMoves, Zenon
<1> DEFINE m == Head(wire[p])
<1> HIDE DEF m
<1>3. m \in Packets => (m.type # "barrier" => m.req \in Known) /\ m.nr \in Int
  BY SMT DEF Packets
<1>4. QED
  BY <1>2, <1>3 DEF m

\* The peer receives, writes, reads and answers.
LEMMA PeerStepInv ==
  ASSUME EpochInv, NEW p \in Peers, PeerStep(p)
  PROVE  EpochInv'
<1>1. CASE PeerReceive(p)
  <2> USE <1>1
  <2> DEFINE r == Head(wire[p]).req
             x1 == [peer[p] EXCEPT !.active = peer[p].active \cup {r}]
             x == [peer[p] EXCEPT !.active = @ \cup {r}, !.size = @ + 1]
  <2> MentionInv
    BY DEF EpochInv
  <2>1. /\ UNCHANGED <<rsVars, dagtag_sector, sub, prepared, snd, replies, connVars, diskVars>>
        /\ wire[p] # <<>> /\ Head(wire[p]).type = "write" /\ wire' = [wire EXCEPT ![p] = Tail(@)]
        /\ SendAck(p, Proto[p] = "B", Ack("recv", r))
        /\ peer' = [peer EXCEPT ![p] = x]
    BY Zenon DEF PeerReceive
  <2>2. wire' \in [Peers -> Seq(Packets)] /\ r \in Known
    BY <2>1, WireHead, ZenonT(30)
  <2>3. peer \in [Peers -> PeerType] /\ peer[p] \in PeerType
    BY MentionTypes
  <2> HIDE DEF r
  <2>4. Ack("recv", r) \in Acks
    BY <2>2, AckOf, Zenon
  <2>5. ctl' \in [Peers -> Seq(Acks)]
    BY <2>1, <2>4, AckTyped
  <2>6. peer[p].active \cup {r} \in SUBSET Known /\ peer[p].size + 1 \in Int
    BY <2>2, <2>3, SMT DEF PeerType
  <2>7. x = [x1 EXCEPT !.size = peer[p].size + 1]
    BY <2>3, SMT DEF PeerType
  <2>8. x \in PeerType
    BY <2>3, <2>6, <2>7, PeerFields, Zenon
  <2> HIDE DEF x
  <2>9. peer' \in [Peers -> PeerType]
    BY <2>1, <2>3, <2>8, Zenon
  <2>10. MentionInv'
    BY <2>1, <2>2, <2>5, <2>9, MentionTo, MentionTypes, Zenon DEF rsVars, logVars, ptrVars, diskVars
  <2>11. budget' = budget
    BY <2>1, Zenon DEF connVars
  <2>12. QED
    BY <2>1, <2>10, <2>11, BudgetTyped, EnvInv, Zenon
<1>2. ASSUME NEW r \in Reqs, NEW result \in {"write", "sis", "neg"}, PeerWrite(p, r, result)
      PROVE  EpochInv'
  <2> USE <1>2
  <2> DEFINE k == req[r].blk
             d == [peer[p].data EXCEPT ![k] = IF result = "neg" THEN @ ELSE r]
             x1 == [peer[p] EXCEPT !.active = peer[p].active \ {r}]
             x2 == [x1 EXCEPT !.failed = peer[p].failed \/ result = "neg"]
             x == [peer[p] EXCEPT !.active = @ \ {r}, !.failed = @ \/ result = "neg",
                                  !.data[k] = IF result = "neg" THEN @ ELSE r]
             n == budget.neg - IF result = "neg" THEN 1 ELSE 0
  <2> MentionInv /\ ShapeInv
    BY DEF EpochInv
  <2>1. /\ UNCHANGED <<rsVars, dagtag_sector, sub, prepared, snd, wire, replies, diskVars>>
        /\ r \in peer[p].active
        /\ SendAck(p, result = "neg" \/ Proto[p] = "C", Ack(result, r))
        /\ peer' = [peer EXCEPT ![p] = x]
    BY Zenon DEF PeerWrite
  <2>2. budget' = [budget EXCEPT !.neg = n]
    BY BudgetTyped, SMT DEF PeerWrite, BudgetType
  <2>3. peer \in [Peers -> PeerType] /\ peer[p] \in PeerType
    BY MentionTypes
  <2>4. r \in Known /\ r \in Ptrs /\ k \in Blocks
    <3>1. r \in Known
      BY <2>1, <2>3, Zenon DEF PeerType
    <3>2. k \in Blocks
      BY SMT DEF ShapeInv
    <3>3. QED
      BY <3>1, <3>2, Zenon DEF Ptrs
  <2> HIDE DEF k
  <2>5. ctl' \in [Peers -> Seq(Acks)]
    <3>1. Ack(result, r) \in Acks
      BY <2>4, AckOf, Zenon
    <3>2. QED
      BY <2>1, <3>1, AckTyped
  <2>6. /\ peer[p].active \ {r} \in SUBSET Known /\ peer[p].data \in [Blocks -> Ptrs]
    BY <2>3, SMT DEF PeerType
  <2>7. (peer[p].failed \/ result = "neg") \in BOOLEAN
    OBVIOUS
  <2>8. d \in [Blocks -> Ptrs]
    BY <2>4, <2>6, Zenon
  <2>9. x = [x2 EXCEPT !.data = d]
    BY <2>3, SMT DEF PeerType
  <2> HIDE DEF d
  <2>10. x1 \in PeerType
    BY <2>3, <2>6, PeerFields, Zenon
  <2> HIDE DEF x1
  <2>11. x2 \in PeerType
    BY <2>7, <2>10, PeerFields, Zenon
  <2> HIDE DEF x2
  <2>12. x \in PeerType
    BY <2>8, <2>9, <2>11, PeerFields, Zenon
  <2> HIDE DEF x
  <2>13. peer' \in [Peers -> PeerType]
    BY <2>1, <2>3, <2>12, Zenon
  <2>14. MentionInv'
    BY <2>1, <2>5, <2>13, MentionTo, MentionTypes, Zenon DEF rsVars, logVars, ptrVars, diskVars
  <2>15. n \in Int
    BY BudgetTyped, SMT DEF BudgetType
  <2> HIDE DEF n
  <2>16. budget' \in BudgetType /\ budget'.reqs = budget.reqs
    BY <2>2, <2>15, BudgetTyped, BudgetFields, Zenon
  <2>17. QED
    BY <2>1, <2>14, <2>16, EnvInv, SMTT(30)
<1>3. CASE PeerBarrier(p)
  <2> USE <1>3
  <2> DEFINE m == [type |-> "barrier", req |-> NoReq, nr |-> Head(wire[p]).nr, size |-> peer[p].size]
             x == [peer[p] EXCEPT !.size = 0]
  <2> MentionInv
    BY DEF EpochInv
  <2>1. /\ UNCHANGED <<rsVars, dagtag_sector, sub, prepared, snd, replies, connVars, diskVars>>
        /\ wire[p] # <<>> /\ wire' = [wire EXCEPT ![p] = Tail(@)]
        /\ SendAck(p, TRUE, m)
        /\ peer' = [peer EXCEPT ![p] = x]
    BY Zenon DEF PeerBarrier
  <2>2. wire' \in [Peers -> Seq(Packets)] /\ Head(wire[p]).nr \in Int
    BY <2>1, WireHead, ZenonT(30)
  <2>3. peer \in [Peers -> PeerType] /\ peer[p] \in PeerType /\ peer[p].size \in Int /\ 0 \in Int
    <3>1. peer \in [Peers -> PeerType] /\ peer[p] \in PeerType
      BY MentionTypes
    <3>2. QED
      BY <3>1, SMT DEF PeerType
  <2>4. m \in Acks
    BY <2>2, <2>3, Zenon DEF Acks
  <2> HIDE DEF m
  <2>5. ctl' \in [Peers -> Seq(Acks)]
    BY <2>1, <2>4, AckTyped, ZenonT(30)
  <2>6. x \in PeerType
    BY <2>3, PeerFields, Zenon
  <2> HIDE DEF x
  <2>7. peer' \in [Peers -> PeerType]
    BY <2>1, <2>3, <2>6, Zenon
  <2>8. MentionInv'
    BY <2>1, <2>2, <2>5, <2>7, MentionTo, MentionTypes, Zenon DEF rsVars, logVars, ptrVars, diskVars
  <2>9. budget' = budget
    BY <2>1 DEF connVars
  <2>10. QED
    BY <2>1, <2>8, <2>9, BudgetTyped, EnvInv, SMTT(30)
<1>4. ASSUME NEW type \in {"data", "negdata"}, PeerRead(p, type)
      PROVE  EpochInv'
  <2> USE <1>4
  <2> DEFINE m == Ack(type, Head(wire[p]).req)
             n == budget.neg - IF type = "negdata" THEN 1 ELSE 0
  <2> MentionInv
    BY DEF EpochInv
  <2>1. /\ UNCHANGED <<rsVars, dagtag_sector, sub, prepared, snd, ctl, peer, diskVars>>
        /\ wire[p] # <<>> /\ Head(wire[p]).type = "read" /\ wire' = [wire EXCEPT ![p] = Tail(@)]
        /\ replies' = [replies EXCEPT ![p] = Append(@, m)]
    BY Zenon DEF PeerRead
  <2>2. budget' = [budget EXCEPT !.neg = n]
    BY BudgetTyped, SMTT(30) DEF PeerRead, BudgetType
  <2>3. wire' \in [Peers -> Seq(Packets)] /\ Head(wire[p]).req \in Known
    BY <2>1, WireHead, ZenonT(30)
  <2>4. m \in Answers
    BY <2>3, AckOf, Zenon
  <2> HIDE DEF m
  <2>5. replies' \in [Peers -> Seq(Answers)]
    <3>1. replies \in [Peers -> Seq(Answers)]
      BY MentionTypes
    <3>2. QED
      BY <2>1, <2>4, <3>1, SequenceMoves, Zenon
  <2>6. MentionInv'
    BY <2>1, <2>3, <2>5, MentionTo, MentionTypes, Zenon DEF rsVars, logVars, ptrVars, diskVars
  <2>7. n \in Int
    BY BudgetTyped, SMT DEF BudgetType
  <2> HIDE DEF n
  <2>8. budget' \in BudgetType /\ budget'.reqs = budget.reqs
    BY <2>2, <2>7, BudgetTyped, BudgetFields, ZenonT(30)
  <2>9. QED
    BY <2>1, <2>6, <2>8, EnvInv, Zenon
<1>5. QED
  BY <1>1, <1>2, <1>3, <1>4, Zenon DEF PeerStep

(***************************************************************************)
(* The callers of mod_rq_state().                                          *)
(***************************************************************************)
LEMMA NetMod ==
  ASSUME EpochInv, NEW a, NEW r \in Known, NEW p, NEW clear, NEW set \in SUBSET NetFlags,
         mod_net(a, r, p, clear, set), UNCHANGED <<dagtag_sector, sub, prepared, budget>>,
         MentionInv'
  PROVE  EpochInv'
<1> DEFINE nn == [net_rq_state[r] EXCEPT ![p] = (@ \ clear) \cup set]
<1>1. r \in Reqs /\ net_rq_state[r] \in [Peers -> SUBSET NetFlags] /\ local_rq_state[r] \in SUBSET LocalFlags
  BY SMTT(30) DEF Known, EpochInv, ShapeInv
<1>2. nn \in [Peers -> SUBSET NetFlags]
  <2>1. CASE p \in Peers
    <3>1. (net_rq_state[r][p] \ clear) \cup set \in SUBSET NetFlags
      BY <1>1, <2>1, Zenon
    <3>2. QED
      BY <1>1, <3>1, Zenon
  <2>2. CASE p \notin Peers
    BY <1>1, <2>2, Zenon
  <2>3. QED
    BY <2>1, <2>2, ZenonT(30)
<1>3. /\ mod_rq_state(a, r, local_rq_state[r], nn)
      /\ UNCHANGED <<modRest, tleVars>>
  BY Zenon DEF mod_net
<1> HIDE DEF nn
<1>4. TleStep /\ UNCHANGED <<req, master_bio, next_write, retryVars, dagtag_sector, prepared, budget>>
  BY <1>3, Zenon DEF TleStep, modRest, bioVars, logVars
<1>5. QED
  BY <1>1, <1>2, <1>3, <1>4, ModRq, Zenon

LEMMA LocalMod ==
  ASSUME EpochInv, NEW a, NEW r \in Known, NEW clear, NEW set \in SUBSET LocalFlags,
         mod_local(a, r, clear, set), UNCHANGED sub \/ SubMoves,
         UNCHANGED <<dagtag_sector, prepared, budget>>, MentionInv'
  PROVE  EpochInv'
<1> DEFINE nl == (local_rq_state[r] \ clear) \cup set
<1>1. r \in Reqs /\ net_rq_state[r] \in [Peers -> SUBSET NetFlags] /\ local_rq_state[r] \in SUBSET LocalFlags
  BY SMT DEF Known, EpochInv, ShapeInv
<1>2. nl \in SUBSET LocalFlags
  BY <1>1, Zenon
<1>3. /\ mod_rq_state(a, r, nl, net_rq_state[r])
      /\ UNCHANGED <<modRest, tleVars>>
  BY Zenon DEF mod_local
<1> HIDE DEF nl
<1>4. TleStep /\ UNCHANGED <<req, master_bio, next_write, retryVars, dagtag_sector, prepared, budget>>
  BY <1>3 DEF TleStep, modRest, bioVars, logVars
<1>5. QED
  BY <1>1, <1>2, <1>3, <1>4, ModRq, Zenon

LEMMA LocalMention ==
  ASSUME MentionInv, NEW a, NEW r, NEW clear, NEW set, mod_local(a, r, clear, set),
         disk_io' \subseteq Known, UNCHANGED <<netVars, snd>>
  PROVE  MentionInv'
<1>1. UNCHANGED <<req, req_next, transfer_log>>
  BY DEF mod_local, modRest, logVars
<1>2. transfer_log' \subseteq Known
  BY <1>1, MentionTypes, Zenon
<1>3. QED
  BY <1>1, <1>2, MentionLog, Zenon

LEMMA NetMention ==
  ASSUME MentionInv, NEW a, NEW r, NEW p, NEW clear, NEW set, mod_net(a, r, p, clear, set),
         disk_io' \subseteq Known,
         wire' \in [Peers -> Seq(Packets)], ctl' \in [Peers -> Seq(Acks)],
         replies' \in [Peers -> Seq(Answers)], peer' \in [Peers -> PeerType],
         snd' \in [Peers -> SndType], \A q \in Peers : SndGood(snd'[q])
  PROVE  MentionInv'
<1>1. UNCHANGED <<req, req_next, transfer_log>>
  BY Zenon DEF mod_net, modRest, logVars
<1>2. transfer_log' \subseteq Known /\ req_next' \in [Peers -> Known \cup {NoReq}]
  BY <1>1, MentionTypes
<1>3. QED
  BY <1>1, <1>2, MentionTo, Zenon

NetFlagSets ==
  {{}, {"OK"}, {"OK", "SIS"}, {"DONE"}, {"OK", "DONE"}, {"SENT"}, {"SENT", "OK"}, {"QUEUED"}}

LEMMA FlagSetTypes ==
  /\ \A S \in NetFlagSets : S \in SUBSET NetFlags
  /\ \A S \in {{}, {"LOCAL_PENDING"}, {"LOCAL_COMPLETED", "LOCAL_OK"}, {"LOCAL_COMPLETED"},
               {"LOCAL_ABORTED"}, {"COMPLETION_SUSP"}} : S \in SUBSET LocalFlags
BY DEF NetFlagSets, NetFlags, NET_MASK, LocalFlags

\* The sender has let go of its request.
LEMMA SndIdle ==
  ASSUME MentionInv, NEW p \in Peers, NEW x,
         \/ x = [snd[p] EXCEPT !.pc = "idle", !.req = NoReq]
         \/ \E n \in Int : x = [snd[p] EXCEPT !.pc = "idle", !.req = NoReq, !.seen_dagtag = n]
  PROVE  SndGood(x)
<1> DEFINE x1 == [snd[p] EXCEPT !.pc = "idle"]
           x2 == [snd[p] EXCEPT !.pc = "idle", !.req = NoReq]
<1>1. snd[p] \in SndType
  BY MentionTypes, ZenonT(30)
<1>2. x2 = [x1 EXCEPT !.req = NoReq]
  BY Zenon
<1>3. x2 \in SndType
  BY <1>1, <1>2, SndFields, Zenon
<1>4. x2.pc = "idle"
  BY <1>1, ZenonT(30) DEF SndType
<1>5. ASSUME NEW n \in Int, x = [snd[p] EXCEPT !.pc = "idle", !.req = NoReq, !.seen_dagtag = n]
      PROVE  x \in SndType /\ x.pc = "idle"
  <2>1. x = [x2 EXCEPT !.seen_dagtag = n]
    BY <1>5, Zenon
  <2>2. x \in SndType
    BY <1>3, <2>1, SndFields, Zenon
  <2>3. x.pc = "idle"
    BY <1>3, <1>4, <2>1, Zenon DEF SndType
  <2>4. QED
    BY <2>2, <2>3, ZenonT(30)
<1>6. x \in SndType /\ x.pc = "idle"
  BY <1>3, <1>4, <1>5, ZenonT(30)
<1>7. x.pc \notin {"send", "sent"}
  BY <1>6, ZenonT(30)
<1>8. QED
  BY <1>6, <1>7, ZenonT(30) DEF SndGood

\* The sender of a connection.
LEMMA SenderStepInv ==
  ASSUME LeastExists, EpochInv, NEW p \in Peers, SenderStep(p)
  PROVE  EpochInv'
<1>1. CASE IdleSendBarrier(p)
  <2> USE <1>1
  <2> DEFINE epoch == snd[p].current_epoch_nr + 1
             x == [AfterBarrier(p, epoch) EXCEPT !.pc = "idle"]
             y == [snd[p] EXCEPT !.pc = "idle"]
  <2> MentionInv
    BY DEF EpochInv
  <2>1. snd[p] \in SndType /\ snd \in [Peers -> SndType] /\ wire \in [Peers -> Seq(Packets)]
    BY MentionTypes
  <2>2. epoch \in Int
    BY <2>1, SMT DEF SndType
  <2>3. /\ UNCHANGED <<rsVars, dagtag_sector, sub, prepared, ctl, replies, peer, connVars, diskVars>>
        /\ wire' \in {[wire EXCEPT ![p] = @ \o BarrierIfDue(p, epoch)], wire}
        /\ snd' = [snd EXCEPT ![p] = x] \/ snd' = [snd EXCEPT ![p] = y]
    BY Zenon DEF IdleSendBarrier
  <2> HIDE DEF epoch
  <2>4. BarrierIfDue(p, epoch) \in Seq(Packets) /\ AfterBarrier(p, epoch) \in SndType
    BY <2>2, BarrierTyped
  <2>5. wire' \in [Peers -> Seq(Packets)]
    <3>1. [wire EXCEPT ![p] = @ \o BarrierIfDue(p, epoch)] \in [Peers -> Seq(Packets)]
      BY <2>1, <2>4, SequenceMoves
    <3>2. QED
      BY <2>1, <2>3, <3>1, Zenon
  <2>6. x \in SndType /\ y \in SndType
    BY <2>1, <2>4, SndFields, Zenon
  <2>7. x.pc = "idle" /\ y.pc = "idle"
    BY <2>1, <2>4, SMT DEF SndType
  <2> HIDE DEF x, y
  <2>8. SndGood(x) /\ SndGood(y)
    BY <2>6, <2>7, Zenon DEF SndGood
  <2>9. snd' \in [Peers -> SndType] /\ \A q \in Peers : SndGood(snd'[q])
    BY <2>3, <2>8, SndMoves
  <2>10. MentionInv'
    BY <2>3, <2>5, <2>9, MentionTo, MentionTypes, Zenon DEF rsVars, logVars, ptrVars, diskVars
  <2>11. budget' = budget
    BY <2>3, Zenon DEF connVars
  <2>12. QED
    BY <2>3, <2>10, <2>11, BudgetTyped, EnvInv, Zenon
<1>2. CASE ProcessOneRequest(p)
  <2> USE <1>2
  <2> DEFINE r == snd[p].req
             data == "EXP_BARR_ACK" \in net_rq_state[r][p]
             epoch == req[r].epoch
             first == data /\ ~snd[p].seen_any_write_yet
             barrier == IF first THEN <<>> ELSE BarrierIfDue(p, epoch)
             packet == IF req[r].kind = "write" /\ ~data THEN <<>>
                       ELSE <<[type |-> req[r].kind, nr |-> epoch, req |-> r]>>
             z == [snd[p] EXCEPT !.seen_any_write_yet = TRUE, !.current_epoch_nr = epoch,
                                 !.current_epoch_writes = 0]
             after == IF first THEN z ELSE AfterBarrier(p, epoch)
             n == after.current_epoch_writes + IF data THEN 1 ELSE 0
             x == [after EXCEPT !.pc = "sent", !.current_epoch_writes = @ + IF data THEN 1 ELSE 0]
  <2> MentionInv /\ ShapeInv
    BY DEF EpochInv
  <2>1. /\ snd[p] \in SndType /\ snd \in [Peers -> SndType] /\ wire \in [Peers -> Seq(Packets)]
        /\ SndGood(snd[p])
    BY MentionTypes
  <2>2. /\ UNCHANGED <<rsVars, dagtag_sector, sub, prepared, ctl, replies, peer, connVars, diskVars>>
        /\ wire' = [wire EXCEPT ![p] = @ \o barrier \o packet]
        /\ snd' = [snd EXCEPT ![p] = x]
        /\ snd[p].pc = "send"
    BY Zenon DEF ProcessOneRequest
  <2>3. r \in Known /\ r # NoReq
    <3>1. r \in Known \cup {NoReq} /\ r # NoReq
      BY <2>1, <2>2, ZenonT(30) DEF SndGood, SndType
    <3>2. QED
      BY <3>1, Zenon
  <2>4. r \in Reqs /\ req[r].kind \in {"write", "read", "flush"} /\ epoch \in Int
    BY <2>3, KnownFields
  <2>5. packet \in Seq(Packets)
    <3>1. [type |-> req[r].kind, nr |-> epoch, req |-> r] \in Packets
      BY <2>3, <2>4, ZenonT(30) DEF Packets
    <3>2. QED
      BY <3>1, SeqMakes, Zenon
  <2> HIDE DEF epoch, r, data
  <2>6. /\ BarrierIfDue(p, epoch) \in Seq(Packets) /\ AfterBarrier(p, epoch) \in SndType
        /\ AfterBarrier(p, epoch).req = snd[p].req
    BY <2>4, BarrierTyped
  <2>7. z \in SndType /\ z.req = snd[p].req
    <3> DEFINE z1 == [snd[p] EXCEPT !.seen_any_write_yet = TRUE]
               z2 == [z1 EXCEPT !.current_epoch_nr = epoch]
    <3>1. z = [z2 EXCEPT !.current_epoch_writes = 0]
      BY Zenon
    <3>2. 0 \in Int /\ TRUE \in BOOLEAN
      BY SMT
    <3>3. z1 \in SndType
      BY <2>1, <3>2, SndFields, Zenon
    <3>4. z2 \in SndType
      BY <2>4, <3>3, SndFields, Zenon
    <3>5. z \in SndType
      BY <3>1, <3>2, <3>4, SndFields, Zenon
    <3>6. z.req = snd[p].req
      BY <2>1, SMT DEF SndType
    <3>7. QED
      BY <3>5, <3>6
  <2> HIDE DEF z
  <2>8. after \in SndType /\ after.req = snd[p].req
    BY <2>6, <2>7, Zenon
  <2>9. barrier \in Seq(Packets)
    BY <2>6, SeqMakes, Zenon
  <2> HIDE DEF after, packet, barrier
  <2>10. x \in SndType /\ x.req = snd[p].req
    <3> DEFINE x1 == [after EXCEPT !.pc = "sent"]
    <3>1. x = [x1 EXCEPT !.current_epoch_writes = n] /\ n \in Int
      BY <2>8, SMT DEF SndType
    <3>2. x1 \in SndType
      BY <2>8, SndFields, Zenon
    <3>3. x \in SndType
      BY <3>1, <3>2, SndFields, Zenon
    <3>4. x.req = after.req
      BY <2>8, SMT DEF SndType
    <3>5. QED
      BY <2>8, <3>3, <3>4
  <2> HIDE DEF x
  <2>11. SndGood(x)
    BY <2>3, <2>10, Zenon DEF SndGood, r
  <2>12. wire' \in [Peers -> Seq(Packets)]
    <3>1. wire[p] \o barrier \o packet \in Seq(Packets)
      BY <2>1, <2>5, <2>9, SeqMakes, Zenon
    <3>2. QED
      BY <2>1, <2>2, <3>1, Zenon
  <2>13. snd' \in [Peers -> SndType] /\ \A q \in Peers : SndGood(snd'[q])
    BY <2>2, <2>11, SndMoves, ZenonT(30)
  <2>14. MentionInv'
    BY <2>2, <2>12, <2>13, MentionTo, MentionTypes, Zenon DEF rsVars, logVars, ptrVars, diskVars
  <2>15. budget' = budget
    BY <2>2, Zenon DEF connVars
  <2>16. QED
    BY <2>2, <2>14, <2>15, BudgetTyped, EnvInv, Zenon
<1>3. CASE HandedOver(p)
  <2> USE <1>3
  <2> DEFINE x == [snd[p] EXCEPT !.pc = "idle", !.req = NoReq]
             r == snd[p].req
  <2> MentionInv
    BY DEF EpochInv
  <2>1. /\ UNCHANGED <<dagtag_sector, sub, prepared, netVars, connVars, diskVars>>
        /\ snd' = [snd EXCEPT ![p] = x] /\ snd[p].pc = "sent"
        /\ \/ mod_net(Sender(p), r, p, {"PENDING_OOS", "QUEUED"}, {})
           \/ mod_net(Sender(p), r, p, {"QUEUED", "PENDING"}, {"SENT", "OK"})
           \/ mod_net(Sender(p), r, p, {"QUEUED"}, {"SENT"})
    BY Zenon DEF HandedOver
  <2>2. PICK set \in {{}, {"SENT", "OK"}, {"SENT"}} : \E clear : mod_net(Sender(p), r, p, clear, set)
    BY <2>1, Zenon
  <2>a. PICK clear : mod_net(Sender(p), r, p, clear, set)
    BY <2>2
  <2>3. set \in SUBSET NetFlags
    BY FlagSetTypes, Zenon DEF NetFlagSets
  <2>4. r \in Known
    <3>1. SndGood(snd[p])
      BY MentionTypes
    <3>2. r \in Known \cup {NoReq} /\ r # NoReq
      BY <2>1, <3>1, ZenonT(30) DEF SndGood, SndType
    <3>3. QED
      BY <3>2, Zenon
  <2>5. SndGood(x)
    BY SndIdle, ZenonT(30)
  <2> HIDE DEF x, r
  <2>6. snd' \in [Peers -> SndType] /\ \A q \in Peers : SndGood(snd'[q])
    BY <2>1, <2>5, SndMoves, ZenonT(30)
  <2>7. /\ disk_io' \subseteq Known
        /\ wire' \in [Peers -> Seq(Packets)] /\ ctl' \in [Peers -> Seq(Acks)]
        /\ replies' \in [Peers -> Seq(Answers)] /\ peer' \in [Peers -> PeerType]
    BY <2>1, MentionTypes DEF netVars, diskVars
  <2>8. MentionInv'
    BY <2>a, <2>6, <2>7, NetMention, ZenonT(30)
  <2>9. budget' = budget
    BY <2>1 DEF connVars
  <2>10. QED
    BY <2>1, <2>a, <2>3, <2>4, <2>8, <2>9, NetMod, Zenon
<1>4. CASE SendCanceled(p)
  <2> USE <1>4
  <2> DEFINE r == IF snd[p].pc = "send" THEN snd[p].req ELSE NextRequest(p)
             nn == [net_rq_state[r] EXCEPT ![p] = @ \ {"PENDING_OOS", "QUEUED"}]
             x == [snd[p] EXCEPT !.pc = "idle", !.req = NoReq, !.seen_dagtag = req[r].dagtag]
  <2> MentionInv /\ ShapeInv
    BY DEF EpochInv
  <2>1. /\ UNCHANGED <<req, bioVars, logVars, retryVars, tleVars, dagtag_sector, sub, prepared, netVars,
                       connVars, diskVars>>
        /\ snd' = [snd EXCEPT ![p] = x] /\ r # NoReq
        /\ req_next' = [req_next EXCEPT ![p] = r]
        /\ mod_rq_state(Sender(p), r, local_rq_state[r], nn)
    BY Zenon DEF SendCanceled
  <2>2. r \in Known
    <3>1. snd[p].req \in Known \cup {NoReq}
      <4>1. snd[p] \in SndType
        BY MentionTypes
      <4>2. QED
        BY <4>1, Zenon DEF SndType
    <3>2. NextRequest(p) \in Known \cup {NoReq}
      BY NextRequestKnown, Zenon
    <3>3. QED
      BY <2>1, <3>1, <3>2, Zenon
  <2> HIDE DEF r
  <2>3. /\ r \in Reqs /\ net_rq_state[r] \in [Peers -> SUBSET NetFlags] /\ local_rq_state[r] \in SUBSET LocalFlags
        /\ req[r].dagtag \in Int
    BY <2>2, SMTT(30) DEF Known, ShapeInv
  <2>4. nn \in [Peers -> SUBSET NetFlags]
    BY <2>3, SMT
  <2>5. SndGood(x)
    BY <2>3, SndIdle, Zenon
  <2> HIDE DEF x, nn
  <2>6. snd' \in [Peers -> SndType] /\ \A q \in Peers : SndGood(snd'[q])
    BY <2>1, <2>5, SndMoves, ZenonT(30)
  <2>7. req_next' \in [Peers -> Known \cup {NoReq}]
    <3>1. req_next \in [Peers -> Known \cup {NoReq}] /\ r \in Known \cup {NoReq}
      BY <2>2, MentionTypes, Zenon
    <3>2. QED
      BY <2>1, <3>1, Zenon
  <2>8. MentionInv'
    BY <2>1, <2>6, <2>7, MentionTo, MentionTypes, Zenon DEF netVars, diskVars, logVars
  <2>9. TleStep /\ UNCHANGED <<req, master_bio, next_write, retryVars, dagtag_sector, prepared, budget, sub>>
    BY <2>1 DEF TleStep, bioVars, logVars, connVars
  <2>10. QED
    BY <2>1, <2>2, <2>3, <2>4, <2>8, <2>9, ModRq, ZenonT(30)
\* tl_next_request_for_connection()
<1>5. CASE PickRequest(p) \/ IdleCheckEpoch(p)
  <2> USE <1>5
  <2> DEFINE r == NextRequest(p)
             x == [snd[p] EXCEPT !.pc = "send", !.req = r, !.seen_dagtag = req[r].dagtag]
             y == [snd[p] EXCEPT !.pc = "barrier"]
  <2> MentionInv /\ ShapeInv
    BY DEF EpochInv
  <2>1. /\ UNCHANGED <<req, bioVars, flagVars, logVars, retryVars, tleVars, owe, dagtag_sector, sub, prepared,
                       netVars, connVars, diskVars>>
        /\ req_next' = [req_next EXCEPT ![p] = r]
        /\ \/ r # NoReq /\ snd' = [snd EXCEPT ![p] = x]
           \/ snd' = [snd EXCEPT ![p] = y]
    BY Zenon DEF PickRequest, IdleCheckEpoch
  <2>2. r \in Known \cup {NoReq}
    BY NextRequestKnown, SMTT(30)
  <2>3. snd[p] \in SndType
    BY MentionTypes
  <2> HIDE DEF r
  <2>4. r # NoReq => SndGood(x)
    <3> DEFINE x1 == [snd[p] EXCEPT !.pc = "send"]
               x2 == [x1 EXCEPT !.req = r]
    <3>0. SUFFICES ASSUME r # NoReq PROVE SndGood(x)
      BY Zenon
    <3>1. req[r].dagtag \in Int
      <4>1. r \in Reqs
        BY <2>2, <3>0, SMT DEF Known
      <4>2. QED
        BY <4>1, SMT DEF ShapeInv
    <3>2. x = [x2 EXCEPT !.seen_dagtag = req[r].dagtag]
      BY Zenon
    <3>3. x2 \in SndType
      BY <2>2, <2>3, SndFields, Zenon
    <3>4. x \in SndType
      BY <3>1, <3>2, <3>3, SndFields, Zenon
    <3>5. x.req = r
      BY <2>3, SMT DEF SndType
    <3> HIDE DEF x
    <3>6. QED
      BY <3>0, <3>4, <3>5, Zenon DEF SndGood
  <2>5. SndGood(y)
    <3>1. y \in SndType
      BY <2>3, SndFields, Zenon
    <3>2. y.pc = "barrier"
      BY <2>3, SMTT(30) DEF SndType
    <3> HIDE DEF y
    <3>3. QED
      BY <3>1, <3>2, SMT DEF SndGood
  <2> HIDE DEF x, y
  <2>6. snd' \in [Peers -> SndType] /\ \A q \in Peers : SndGood(snd'[q])
    BY <2>1, <2>4, <2>5, SndMoves
  <2>7. req_next' \in [Peers -> Known \cup {NoReq}]
    <3>1. req_next \in [Peers -> Known \cup {NoReq}]
      BY MentionTypes, Zenon
    <3>2. QED
      BY <2>1, <2>2, <3>1, Zenon
  <2>8. MentionInv'
    BY <2>1, <2>6, <2>7, MentionTo, MentionTypes, ZenonT(30) DEF netVars, diskVars, logVars
  <2>9. /\ TleStep
        /\ UNCHANGED <<req, master_bio, flagVars, next_write, owe, sub, prepared, dagtag_sector,
                       retry_writes, suspended_reqs, budget>>
    BY <2>1, Zenon DEF TleStep, bioVars, logVars, connVars, retryVars
  <2>10. retry_writes' \subseteq Reqs /\ suspended_reqs' \subseteq Reqs
    BY <2>9 DEF ShapeInv
  <2>11. QED
    BY <2>8, <2>9, <2>10, BudgetTyped, Quiet, Zenon DEF BudgetType
<1>6. QED
  BY <1>1, <1>2, <1>3, <1>4, <1>5, Zenon DEF SenderStep

=============================================================================

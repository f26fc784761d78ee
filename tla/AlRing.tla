------------------------------- MODULE AlRing -------------------------------
(***************************************************************************)
(* The on-disk format of the activity log: a ring of blocks, each holding  *)
(* one transaction (drbd_actlog.c, __al_write_transaction()).  A           *)
(* transaction records the labels that change and, for a window of slots   *)
(* that moves on with every transaction, the labels that stay.  Recovery   *)
(* rebuilds the map from slots to labels out of the blocks it finds; a     *)
(* block that was being written when the node crashed does not verify.     *)
(***************************************************************************)
EXTENDS Naturals, FiniteSets

CONSTANTS
    NrElements,     \* slots of the log
    RingSize,       \* al_size_4k, blocks of the ring
    Window,         \* AL_CONTEXT_PER_TRANSACTION
    MaxUpdates,     \* AL_UPDATES_PER_TRANSACTION
    Extents,
    LcFree,         \* LC_FREE
    TrNumbers       \* 2^32, the width of al_tr_number

\* drbd_al_extents_max(): the "current" transaction may fail (n-1).
ASSUME RingAssumption ==
    /\ NrElements \in Nat \ {0} /\ Window \in Nat \ {0}
    /\ RingSize \in Nat /\ MaxUpdates \in Nat /\ TrNumbers \in Nat
    /\ RingSize < TrNumbers
    /\ NrElements <= (RingSize - 1) * Window
    /\ LcFree \notin Extents

VARIABLES
    label,          \* lc_number of each slot
    ring,           \* the blocks on disk
    writing,        \* the transaction whose block is being written, or None
    al_tr_number,
    al_tr_cycle,
    failed          \* the disk has failed

vars == <<label, ring, writing, al_tr_number, al_tr_cycle, failed>>

Slots == 0 .. NrElements - 1
Labels == Extents \cup {LcFree}
Blank == [valid |-> FALSE]
None == Blank

\* A partial map from slots to labels, by its domain.
Maps == UNION {[S -> Labels] : S \in SUBSET Slots}
Blocks == [valid : {TRUE}, tr : 0 .. TrNumbers - 1, updates : Maps, context : Maps]

\* The block a transaction with the given updates writes.
Block(updates) ==
    LET last == al_tr_cycle + Window - 1
        window == al_tr_cycle .. (IF last < NrElements THEN last ELSE NrElements - 1)
    IN [valid |-> TRUE, tr |-> al_tr_number, updates |-> updates,
        context |-> [s \in window |-> label[s]]]

\* al_tr_number_to_on_disk_sector()
Position(tr) == tr % RingSize

\* The user space tool initialises the ring with empty blocks.
Init ==
    /\ label = [s \in Slots |-> LcFree]
    /\ ring = [b \in 0 .. RingSize - 1 |-> Blank]
    /\ writing = None
    /\ al_tr_number = 0
    /\ al_tr_cycle = 0
    /\ failed = FALSE

\* Faults of the next start of the window: it runs past the end; it skips a slot.
NextCycle_end == al_tr_cycle + Window
NextCycle_skip == IF al_tr_cycle + Window + 1 >= NrElements THEN 0 ELSE al_tr_cycle + Window + 1
NextCycle == IF al_tr_cycle + Window >= NrElements THEN 0 ELSE al_tr_cycle + Window

\* The labels once the updates are committed.
Updated(updates) == [s \in Slots |-> IF s \in DOMAIN updates THEN updates[s] ELSE label[s]]

\* __lc_get() changes a slot only for a label that no slot has or will have.
UniqueLabels(map) == \A s, t \in Slots : map[s] = map[t] /\ s # t => map[s] = LcFree

\* The block is built, the window moves on, and the write starts: from now on
\* the old block is gone.
WriteTransaction ==
    /\ ~failed /\ writing = None
    /\ \E S \in SUBSET Slots :
         /\ Cardinality(S) \in 1 .. MaxUpdates
         /\ \E updates \in [S -> Extents] :
              /\ \A s \in S : updates[s] # label[s]
              /\ UniqueLabels(Updated(updates))
              /\ writing' = Block(updates)
    /\ al_tr_cycle' = NextCycle
    /\ ring' = [ring EXCEPT ![Position(al_tr_number)] = Blank]
    /\ UNCHANGED <<label, al_tr_number, failed>>

\* The block is on disk: lc_committed() follows.
WriteDone ==
    /\ writing # None
    /\ ring' = [ring EXCEPT ![Position(al_tr_number)] = writing]
    /\ al_tr_number' = (al_tr_number + 1) % TrNumbers
    /\ label' = Updated(writing.updates)
    /\ writing' = None
    /\ UNCHANGED <<al_tr_cycle, failed>>

\* An IO error, the block is on disk or not; no transaction is written any more.
WriteFails ==
    /\ writing # None
    /\ \E b \in {Blank, writing} : ring' = [ring EXCEPT ![Position(al_tr_number)] = b]
    /\ failed' = TRUE
    /\ writing' = None
    /\ UNCHANGED <<label, al_tr_number, al_tr_cycle>>

Next == WriteTransaction \/ WriteDone \/ WriteFails

Spec == Init /\ [][Next]_vars

(***************************************************************************)
(* Recovery, in user space: the newest valid block that names a slot tells *)
(* its label, an update before the context of the same block.  Transaction *)
(* numbers wrap around.                                                    *)
(***************************************************************************)
Names(s) == {b \in 0 .. RingSize - 1 :
               ring[b].valid /\ s \in DOMAIN ring[b].updates \cup DOMAIN ring[b].context}

Says(t, s) == IF s \in DOMAIN t.updates THEN t.updates[s] ELSE t.context[s]

Age(b) == (al_tr_number + TrNumbers - ring[b].tr) % TrNumbers

Newest(s) == CHOOSE b \in Names(s) : \A c \in Names(s) : Age(b) <= Age(c)

Recovered == [s \in Slots |-> IF Names(s) = {} THEN LcFree ELSE Says(ring[Newest(s)], s)]

TypeOK ==
    /\ label \in [Slots -> Labels]
    /\ ring \in [0 .. RingSize - 1 -> Blocks \cup {Blank}]
    /\ writing \in Blocks \cup {None}
    /\ al_tr_number \in 0 .. TrNumbers - 1
    /\ al_tr_cycle \in Slots
    /\ failed \in BOOLEAN

\* A crash at any moment, also in the middle of a block, loses no label: recovery
\* finds the labels the cache had committed ("we can accurately reconstruct the
\* active set"), or those of a last transaction that failed.
Reconstructed == ~failed => Recovered = label

(***************************************************************************)
(* Why it holds.  Distance(b) counts the transactions since block b was    *)
(* written, Back(s) those since the window covered slot s, at most the     *)
(* number of windows, which is less than the number of blocks.             *)
(***************************************************************************)
Distance(b) ==
    LET p == Position(al_tr_number) IN IF b < p THEN p - b ELSE p + RingSize - b

Win(s) == s \div Window
Back(s) ==
    LET c == Win(al_tr_cycle)
    IN  IF Win(s) < c THEN c - Win(s) ELSE c + Win(NrElements - 1) + 1 - Win(s)

\* The newest block that names s tells its label.
Tells(b, s) ==
    /\ b \in Names(s) /\ Says(ring[b], s) = label[s]
    /\ \A c \in Names(s) : Distance(b) <= Distance(c)

\* The block that is being written holds the labels of its window, and updates
\* of no more than MaxUpdates slots; the block it goes to is gone.
WritingOK ==
    writing # None =>
      /\ ~failed /\ writing.tr = al_tr_number
      /\ ring[Position(al_tr_number)] = Blank
      /\ \A s \in DOMAIN writing.updates : writing.updates[s] \in Extents
      /\ IsFiniteSet(DOMAIN writing.updates)
      /\ Cardinality(DOMAIN writing.updates) <= MaxUpdates
      /\ \A s \in DOMAIN writing.context : writing.context[s] = label[s]

\* A slot that no block names is free; for every other slot the newest block that
\* names it tells its label and is not older than the last window over it.
Covered(s) ==
    \/ label[s] = LcFree /\ Names(s) = {}
    \/ \E b \in 0 .. RingSize - 1 :
         /\ Tells(b, s)
         /\ IF writing = None THEN Distance(b) <= Back(s)
            ELSE s \in DOMAIN writing.context \/ Distance(b) < Back(s)

\* The inductive invariant: the window over a slot is back before the block that
\* tells its label is reused.
RingInv ==
    /\ TypeOK /\ WritingOK
    /\ al_tr_cycle = Win(al_tr_cycle) * Window
    /\ ~failed => /\ \A b \in 0 .. RingSize - 1 : ring[b].valid => Age(b) = Distance(b)
                  /\ \A s \in Slots : Covered(s)

Stable == INSTANCE AlStable WITH
            Free <- LcFree, stable <- Recovered,
            Groups <- {S \in SUBSET Slots : Cardinality(S) <= MaxUpdates}

\* The ring implements a map that changes in one step with each transaction.
RefinesStable == Stable!Spec

=============================================================================

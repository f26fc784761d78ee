------------------------------ MODULE LruCache ------------------------------
(***************************************************************************)
(* The reference counted LRU cache of labels (drbd-kernel-compat/          *)
(* lru_cache.c): a fixed number of slots, each holding a label (an extent  *)
(* number), its pending new label and the references on it.  The module    *)
(* holds the cache's state and its operations; the activity log composes   *)
(* them into its own steps.                                                *)
(*                                                                         *)
(* A reference count is the set of its holders (a user takes at most one   *)
(* reference on a slot).  The lru list is an age per slot: putting the     *)
(* last reference moves the slot to the front (age 0), so the relative age *)
(* of two idle slots is the order of their last puts, and the tail of the  *)
(* list is the oldest idle slot.                                           *)
(***************************************************************************)
EXTENDS Integers, FiniteSets

CONSTANTS
    NrElements,     \* nr_elements, the number of slots
    MaxPending,     \* max_pending_changes, labels changed by one transaction
    Extents,        \* the labels
    Users           \* who takes references

ASSUME NrElementsAssumption == NrElements \in Nat \ {0}
ASSUME MaxPendingAssumption == MaxPending \in Nat \ {0}
ASSUME ExtentsAssumption == Extents \subseteq Nat

VARIABLES
    lc_number,      \* the label of each slot
    lc_new_number,  \* its label once the pending transaction has committed
    refs,           \* the holders of refcnt
    age,            \* position in the order of last puts
    starving,       \* LC_STARVING
    dirty,          \* LC_DIRTY
    locked          \* LC_LOCKED

lcVars == <<lc_number, lc_new_number, refs, age, starving, dirty, locked>>

Slots == 0 .. NrElements - 1

\* The label of a slot on the free list.
LC_FREE == -1

Labels == Extents \cup {LC_FREE}

LcTypeOK ==
    /\ lc_number \in [Slots -> Labels]
    /\ lc_new_number \in [Slots -> Labels]
    /\ refs \in [Slots -> SUBSET Users]
    /\ age \in [Slots -> Nat]
    /\ starving \in BOOLEAN
    /\ dirty \in BOOLEAN
    /\ locked \in BOOLEAN

\* lc_create(): every slot on the free list.
LcInit ==
    /\ lc_number = [i \in Slots |-> LC_FREE]
    /\ lc_new_number = [i \in Slots |-> LC_FREE]
    /\ refs = [i \in Slots |-> {}]
    /\ age = [i \in Slots |-> i]
    /\ starving = FALSE
    /\ dirty = FALSE
    /\ locked = FALSE

LcReset ==
    /\ lc_number' = [i \in Slots |-> LC_FREE]
    /\ lc_new_number' = [i \in Slots |-> LC_FREE]
    /\ refs' = [i \in Slots |-> {}]
    /\ age' = [i \in Slots |-> i]
    /\ starving' = FALSE
    /\ dirty' = FALSE
    /\ locked' = FALSE

\* The lists a slot can be on.
ToBeChanged == {i \in Slots : lc_number[i] # lc_new_number[i]}
FreeList == {i \in Slots : lc_number[i] = LC_FREE /\ lc_new_number[i] = LC_FREE}
Lru == {i \in Slots : /\ lc_number[i] # LC_FREE
                      /\ lc_number[i] = lc_new_number[i]
                      /\ refs[i] = {}}

\* __lc_find(): slots are hashed by their new label.
\* Fault: a label that is about to be committed is not found.
lc_find_changing_old(e) == {i \in Slots : lc_number[i] = e}
lc_find_changing(e) == {i \in Slots : lc_new_number[i] = e}
lc_find(e) == {i \in Slots : lc_new_number[i] = e /\ lc_number[i] = e}

\* lc_try_get(): only a committed label is a hit, the set never changes.
lc_try_get(u, e) ==
    /\ ~starving
    /\ lc_find(e) # {}
    /\ refs' = [i \in Slots |-> IF i \in lc_find(e) THEN refs[i] \cup {u} ELSE refs[i]]
    /\ UNCHANGED <<lc_number, lc_new_number, age, starving, dirty, locked>>

lc_try_get_fails(e) == starving \/ lc_find(e) = {}

\* lc_get_cumulative() of a label that is present, or about to be.
lc_get_present(u, e) ==
    /\ ~starving
    /\ lc_find_changing(e) # {}
    /\ refs' = [i \in Slots |-> IF i \in lc_find_changing(e)
                                  THEN refs[i] \cup {u} ELSE refs[i]]
    /\ UNCHANGED <<lc_number, lc_new_number, age, starving, dirty, locked>>

\* lc_prepare_for_change(): a free slot, else the tail of the lru list.
Recyclable(i) ==
    IF FreeList # {} THEN i \in FreeList
    ELSE i \in Lru /\ \A j \in Lru : age[j] <= age[i]

\* lc_get_cumulative() of an absent label: a slot joins the transaction.
lc_get_change(u, e) ==
    /\ ~starving
    /\ lc_find_changing(e) = {}
    /\ ~locked
    /\ Cardinality(ToBeChanged) < MaxPending
    /\ \E i \in Slots :
         /\ Recyclable(i)
         /\ lc_new_number' = [lc_new_number EXCEPT ![i] = e]
         /\ refs' = [refs EXCEPT ![i] = @ \cup {u}]
    /\ dirty' = TRUE
    /\ starving' = FALSE
    /\ UNCHANGED <<lc_number, age, locked>>

\* lc_get_cumulative() that returns NULL: the cache starves, is locked, has no
\* slot to recycle (and starves from now on), or has enough pending changes.
lc_get_fails(e) ==
    LET miss == ~starving /\ lc_find_changing(e) = {}
        none == FreeList \cup Lru = {}
    IN /\ \/ starving
          \/ miss /\ (locked \/ none \/ Cardinality(ToBeChanged) >= MaxPending)
       /\ dirty' = (dirty \/ miss)
       /\ starving' = (starving \/ (miss /\ ~locked /\ none))
       /\ UNCHANGED <<lc_number, lc_new_number, refs, age, locked>>

\* Fault: LC_STARVING is not cleared when a slot becomes unused.
lc_put_starving(u, es) ==
    LET put == {i \in Slots : lc_number[i] = lc_new_number[i] /\ lc_number[i] \in es}
        idle == {i \in put : refs[i] = {u}}
        newer(i) == {j \in idle : lc_number[j] > lc_number[i]}
        older(i) == {j \in idle : age[j] > age[i]}
    IN /\ refs' = [i \in Slots |-> IF i \in put THEN refs[i] \ {u} ELSE refs[i]]
       /\ age' = [i \in Slots |-> IF i \in idle THEN Cardinality(newer(i))
                                  ELSE age[i] + Cardinality(older(i))]
       /\ UNCHANGED <<lc_number, lc_new_number, starving, dirty, locked>>

\* lc_put() on each slot of the labels es, in the order of the labels.
lc_put(u, es) ==
    LET put == {i \in Slots : lc_number[i] = lc_new_number[i] /\ lc_number[i] \in es}
        idle == {i \in put : refs[i] = {u}}
        newer(i) == {j \in idle : lc_number[j] > lc_number[i]}
        older(i) == {j \in idle : age[j] > age[i]}
    IN /\ refs' = [i \in Slots |-> IF i \in put THEN refs[i] \ {u} ELSE refs[i]]
       /\ age' = [i \in Slots |-> IF i \in idle THEN Cardinality(newer(i))
                                  ELSE age[i] + Cardinality(older(i))]
       /\ starving' = (starving /\ idle = {})
       /\ UNCHANGED <<lc_number, lc_new_number, dirty, locked>>

\* lc_try_lock(): only a cache with no flag set.
lc_try_lock ==
    /\ ~locked /\ ~dirty /\ ~starving
    /\ locked' = TRUE
    /\ UNCHANGED <<lc_number, lc_new_number, refs, age, starving, dirty>>

\* lc_try_lock_for_transaction()
lc_try_lock_for_transaction ==
    /\ ~locked
    /\ locked' = TRUE
    /\ UNCHANGED <<lc_number, lc_new_number, refs, age, starving, dirty>>

\* Fault: LC_DIRTY stays set.
lc_committed_dirty ==
    /\ lc_number' = lc_new_number
    /\ locked' = FALSE
    /\ UNCHANGED <<lc_new_number, refs, age, starving, dirty>>

\* lc_committed(), then lc_unlock().
lc_committed_unlock ==
    /\ lc_number' = lc_new_number
    /\ locked' = FALSE
    /\ dirty' = FALSE
    /\ UNCHANGED <<lc_new_number, refs, age, starving>>

\* lc_del(): the slot forgets its label.
lc_del(i) ==
    /\ refs[i] = {}
    /\ lc_number' = [lc_number EXCEPT ![i] = LC_FREE]
    /\ lc_new_number' = [lc_new_number EXCEPT ![i] = LC_FREE]
    /\ UNCHANGED <<refs, age, starving, dirty, locked>>

\* lc_unlock()
lc_unlock ==
    /\ locked' = FALSE
    /\ dirty' = FALSE
    /\ UNCHANGED <<lc_number, lc_new_number, refs, age, starving>>

=============================================================================

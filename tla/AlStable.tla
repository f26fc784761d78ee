------------------------------ MODULE AlStable ------------------------------
(***************************************************************************)
(* What the on-disk activity log promises: a map from slots to labels that *)
(* a transaction, which changes one of the Groups of slots, replaces in    *)
(* one step, and in which a slot once used never becomes free, whatever    *)
(* happens to the disk writes that record it.                              *)
(***************************************************************************)
CONSTANTS Slots, Labels, Free, Groups

VARIABLE stable

Init == stable = [s \in Slots |-> Free]

Commit ==
    /\ stable' \in [Slots -> Labels]
    /\ \A s \in Slots : stable'[s] # stable[s] => stable'[s] # Free
    /\ {s \in Slots : stable'[s] # stable[s]} \in Groups

Spec == Init /\ [][Commit]_stable
=============================================================================

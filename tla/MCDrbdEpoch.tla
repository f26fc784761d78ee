---------------------------- MODULE MCDrbdEpoch ----------------------------
(***************************************************************************)
(* Instances of DrbdEpoch for TLC.                                         *)
(***************************************************************************)
EXTENDS DrbdEpoch

Plain(ordering, writes) ==
    [ordering |-> ordering, writes |-> writes, loss |-> 0, stable |-> 0, fails |-> {}, races |-> {}]
Lossy(s) == [s EXCEPT !.loss = 1]
Failing(s, fails) == [s EXCEPT !.fails = fails]
Stable(s) == [s EXCEPT !.stable = 1]
Racing(s, race) == [s EXCEPT !.races = {race}]

\* What the write orderings promise, with the failures the code handles.
All == {Failing(Plain("barrier", 2), {"flush"}), Stable(Plain("flush", 3)),
        Lossy(Plain("flush", 2)), Lossy(Plain("none", 2)), Lossy(Failing(Plain("drain", 2), {"epoch"})),
        Failing(Plain("flush", 2), {"disk", "flush"})}

\* Further scenarios; each breaks one of the properties, see README.md.
StaleConfirmed == {Lossy(Stable(Plain("flush", 3)))}
StaleNumber == {Racing(Lossy(Plain("flush", 3)), "barrier")}
LateCleanup == {Racing(Lossy(Plain("none", 2)), "cleanup")}
NoEpochMemory == {Failing(Plain("flush", 3), {"epoch"})}
FreedEpoch == {Racing(Plain("barrier", 3), "previous")}
BarrierLoss == {Lossy(Plain("barrier", 3))}
=============================================================================

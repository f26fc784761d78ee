----------------------------- MODULE MCDrbdTwopc -----------------------------
(***************************************************************************)
(* Three nodes with a disk and one without, quorum by majority, and the    *)
(* situations of the two-phase commit that are checked: racing promotions, *)
(* promotions across a node that forwards, a connect that races a          *)
(* promotion, lost connections.                                            *)
(***************************************************************************)
EXTENDS DrbdTwopc

FourNodes == 1..4
DisklessNode == {4}
Weights == [p \in FourNodes |-> 0]
None0 == -1

Mesh == {{1, 2}, {1, 3}, {2, 3}}
Line == {{1, 2}, {2, 3}}
Star == {{1, 2}, {1, 3}}
Square == {{1, 2}, {1, 3}, {2, 4}, {3, 4}}

Cmd(n, op, p) == [node |-> n, op |-> op, peer |-> p]
Promote(n) == Cmd(n, Op("role", "Primary", "none"), None0)
Demote(n) == Cmd(n, Op("role", "Secondary", "none"), None0)
Disconnect(n, p) == Cmd(n, Op("disconnect", "none", "none"), p)

Calm == [ops |-> {}, losses |-> 0, timeouts |-> 0, connects |-> 0, late |-> FALSE, tids |-> 4,
         up |-> Mesh, down |-> {}, primary |-> None0]

\* two nodes want to be Primary, on a mesh and through a hub that forwards
RacingPromotions == [Calm EXCEPT !.ops = {Promote(1), Promote(2)}, !.tids = 2]
RacingThroughHub == [Calm EXCEPT !.ops = {Promote(1), Promote(3)}, !.up = Line]
Handover == [Calm EXCEPT !.ops = {Demote(1), Promote(2)}, !.primary = 1]
\* a node connects while it, or another one, becomes Primary
ConnectRace == [Calm EXCEPT !.ops = {Promote(3)}, !.up = {{2, 3}}, !.down = {{1, 2}},
                            !.connects = 1]
OwnRace == [Calm EXCEPT !.ops = {Promote(1)}, !.up = {{1, 2}}, !.down = {{1, 3}},
                        !.connects = 1]
MeetPrimary == [Calm EXCEPT !.up = {{2, 3}}, !.down = {{1, 2}, {1, 3}},
                            !.primary = 2, !.connects = 2]
\* a connection breaks and comes back
Reunite == [Calm EXCEPT !.losses = 1, !.connects = 1, !.primary = 1, !.up = Line]
LossInPromotion == [Calm EXCEPT !.losses = 1, !.ops = {Promote(2)}, !.up = Star, !.tids = 2]
PoliteDisconnect == [Calm EXCEPT !.ops = {Disconnect(3, 2)}, !.primary = 1]
TimeOut == [Calm EXCEPT !.ops = {Promote(1)}, !.timeouts = 1, !.up = Line]
Impatient == [RacingPromotions EXCEPT !.timeouts = 1]
ImpatientHub == [RacingThroughHub EXCEPT !.timeouts = 1, !.tids = 2]
ConnectLoss == [Calm EXCEPT !.up = {{2, 3}}, !.down = {{1, 2}}, !.connects = 1, !.losses = 1,
                            !.tids = 1]
\* the request reaches the node without a disk on two ways
TwoWays == [Calm EXCEPT !.up = Square, !.ops = {Promote(1)}]
TwoWaysLate == [Calm EXCEPT !.up = Square, !.ops = {Promote(1)}, !.timeouts = 2, !.tids = 2]
\* one command, every step of its own
Unhurried == [Calm EXCEPT !.ops = {Promote(1)}, !.late = TRUE, !.tids = 1]

Checked == {RacingPromotions, RacingThroughHub, Handover, ConnectRace, OwnRace,
            MeetPrimary, Reunite, LossInPromotion, PoliteDisconnect, TimeOut,
            Unhurried, Impatient, ImpatientHub, ConnectLoss, TwoWays, TwoWaysLate}

\* situations in which a property fails
SplitDisconnect == {[Calm EXCEPT !.ops = {Disconnect(1, 2)}, !.up = Star]}
LateWork == {[RacingThroughHub EXCEPT !.late = TRUE]}
LostHub == {[Calm EXCEPT !.losses = 1, !.ops = {Promote(1)}, !.up = Line]}
=============================================================================

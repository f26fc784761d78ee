------------------------- MODULE MCDrbdActivityLog -------------------------
(***************************************************************************)
(* Instances of DrbdActivityLog for TLC.                                   *)
(***************************************************************************)
EXTENDS DrbdActivityLog

ThreeExtents == 0 .. 2
TwoExtents == 0 .. 1
FourExtents == 0 .. 3
TwoWrites == 1 .. 2
ThreeWrites == 1 .. 3
FourWrites == 1 .. 4

\* Application writes on three extents, the first one written twice.
AppKind == [w \in Users |-> "app"]
ColdExtents == [w \in Users |-> w % 3]
Alternating == [w \in Users |-> w % 2]

\* Writes of the peer between application writes.
MixedKind == [w \in Users |-> IF w % 2 = 0 THEN "peer" ELSE "app"]

\* The first write of each kind crosses an extent boundary.
WideFirst == [w \in Users |-> IF w <= 2 THEN w - 1 ELSE 3 - (w % 2)]
WideLast == [w \in Users |-> IF w <= 2 THEN w ELSE 3 - (w % 2)]

\* The first write crosses an extent boundary, the second is on a third extent: with
\* two slots one of them has to wait until the other one is through.  The third is on
\* an extent of the first and may find it hot.
TightFirst == [w \in Users |-> IF w = 2 THEN 2 ELSE 0]
TightLast == [w \in Users |-> IF w = 1 THEN 1 ELSE TightFirst[w]]

=============================================================================

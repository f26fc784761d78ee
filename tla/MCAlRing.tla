------------------------------ MODULE MCAlRing ------------------------------
(***************************************************************************)
(* Instances of AlRing for TLC.                                            *)
(***************************************************************************)
EXTENDS AlRing

ThreeExtents == {0, 1, 2}
FourExtents == {0, 1, 2, 3}
=============================================================================

----------------------------- MODULE MCRsdkCrash -----------------------------
(* RsdkCrash for TLC. *)
EXTENDS RsdkCrash

CONSTANT c1

OneChannel  == {c1}
OneType     == {"continuous"}
UnitFrames  == {1}
SmallFrames == {1, 2}
Kills       == {"kill"}
AnyCrash    == {"kill", "power"}
==============================================================================

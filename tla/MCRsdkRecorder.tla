---------------------------- MODULE MCRsdkRecorder ----------------------------
(* RsdkRecorder for TLC. Channel and segment names are model values or tuples. *)
EXTENDS RsdkRecorder, TLC

CONSTANTS c1, c2

TwoChannels == {c1, c2}
OneType     == {"continuous"}
SmallFrames == {1, 2}

Symm == Permutations(Chn)
===============================================================================

----------------------------- MODULE MCNopRecord -----------------------------
(* NopRecord for TLC. *)
EXTENDS NopRecord

BackAndForth == {-2, 0, 1}
=============================================================================

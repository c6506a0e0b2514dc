----------------------------- MODULE MCEventHub -----------------------------
(* EventHub for TLC. *)
EXTENDS EventHub

TwoThreads == {"t1", "t2"}
TwoSubs    == {"s1", "s2"}
ThreeSubs  == {"s1", "s2", "s3"}
OneEvent   == {"motion"}
TwoEvents  == {"motion", "face"}
=============================================================================

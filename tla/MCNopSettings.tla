---------------------------- MODULE MCNopSettings ----------------------------
(* NopSettings for TLC: the box, and every cell but the event recording     *)
(* schedules, which cap_gui_playback.c:249 calls per channel and which are *)
(* kept once for all channels: there ReadsBack fails.                      *)
EXTENDS NopSettings

CONSTANTS v1, v2

AllButSchedule == AllCells \ {"eventSchedule"}
Symmetry == Permutations({v1, v2})
=============================================================================

----------------------------- MODULE MCStorage -----------------------------
(* Storage for TLC, alone: what its header promises and the code does not  *)
(* do.  What it does do is checked as a part of MCCameras.                 *)
EXTENDS Storage
=============================================================================

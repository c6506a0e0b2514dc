---------------------------- MODULE MCCloudUpload ----------------------------
(* CloudUpload for TLC. *)
EXTENDS CloudUpload
=============================================================================

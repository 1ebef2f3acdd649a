---------------------------- MODULE MCInstance ----------------------------
(* Instances of Instance for TLC. *)
EXTENDS Instance
=============================================================================

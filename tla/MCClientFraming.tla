-------------------------- MODULE MCClientFraming --------------------------
(* Instances of ClientFraming for TLC. *)
EXTENDS ClientFraming
=============================================================================

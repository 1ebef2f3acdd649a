----------------------------- MODULE MCAnnounce -----------------------------
(* Announce with two devices, each with its worker, and two listeners.      *)
EXTENDS Announce
=============================================================================

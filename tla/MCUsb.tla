------------------------------- MODULE MCUsb -------------------------------
(* Instances of Usb for TLC. *)
EXTENDS Usb
=============================================================================

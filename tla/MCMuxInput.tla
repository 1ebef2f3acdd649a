----------------------------- MODULE MCMuxInput -----------------------------
(***************************************************************************)
(* Instance of MuxInput for TLC: reads of 4 bytes and room for 4 of them,  *)
(* as in the code, and packets around every multiple of a read up to 7.    *)
(***************************************************************************)
EXTENDS MuxInput

MCLengths == 1..26
MCGarbage == 0..26
=============================================================================

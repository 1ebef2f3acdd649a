----------------------------- MODULE MCMuxFlow -----------------------------
(* MuxFlow with windows of a few bytes and counters that wrap soon.        *)
EXTENDS MuxFlow
=============================================================================

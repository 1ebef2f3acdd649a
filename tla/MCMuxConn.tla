----------------------------- MODULE MCMuxConn -----------------------------
EXTENDS MuxConn, TLC

Symm == Permutations(Clients)
=============================================================================

---------------------------- MODULE MCPairStore ----------------------------
EXTENDS PairStore

=============================================================================

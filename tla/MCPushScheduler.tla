-------------------------- MODULE MCPushScheduler --------------------------
EXTENDS PushScheduler, TLC

Symmetry == Permutations(Conn) \cup Permutations(Key)
=============================================================================

---------------------------- MODULE MCRelayKernel ----------------------------
EXTENDS RelayKernel, TLC

Alike == Permutations(Actors)
==============================================================================

---------------------------- MODULE MCPageFrames ----------------------------
EXTENDS PageFrames, TLC
CONSTANTS a, b
OneClient == {a}
TwoClients == {a, b}
Alike == Permutations(TwoClients)
=============================================================================

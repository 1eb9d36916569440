-------------------------- MODULE MCRackOccupancy --------------------------
EXTENDS RackOccupancy, TLC

CONSTANTS d1, d2, k1, k2, w1, w2

Symmetric == Permutations(Devices) \cup Permutations(Racks) \cup Permutations(Writers)
=============================================================================

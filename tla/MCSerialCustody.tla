--------------------------- MODULE MCSerialCustody ---------------------------
EXTENDS SerialCustody, TLC

CONSTANTS d1, d2, d3, s1, s2, p1, p2

Symmetric == Permutations(Devices) \cup Permutations(Serials) \cup Permutations(Procs)
=============================================================================

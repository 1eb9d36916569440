---------------------------- MODULE MCDiscovery ----------------------------
(* Instances of Discovery for TLC.  For the scans: one scanned address that *)
(* answers with the name of a device known at another address, so that      *)
(* mismatches and "update" occur.  For the jobs: two nameless hosts.        *)
EXTENDS Discovery, TLC
CONSTANTS i1, i2, h1, d1, d2, s1, s2, j1, j2
OneAnswer == i1 :> {h1}
NamelessAnswers == (i1 :> {NoHost}) @@ (i2 :> {NoHost})
NoInventory == <<>>
NamesakeInventory == d1 :> [name |-> h1, ip |-> i2]
OneOfEach == [candidates |-> 1, devices |-> 1]
OneChange == [candidates |-> 0, devices |-> 1]
OnePage == [candidates |-> 1, devices |-> 0]

\* Addresses answer alike and no property tells two jobs apart.
Symmetric == Permutations({i1, i2}) \cup Permutations({j1, j2})
=============================================================================

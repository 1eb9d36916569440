--------------------------- MODULE MCJobLifecycle ---------------------------
(* Model-checking instances of JobLifecycle: one reachability run and one   *)
(* backup run, so that a worker, the cleanup and an operator meet on a run  *)
(* while the other run shows what they must leave alone.                    *)
EXTENDS JobLifecycle

CONSTANTS r1, b1, w1, w2

MCRuns == {r1, b1}
MCReachability == {r1}
MCWorkers == {w1, w2}
=============================================================================

--------------------------- MODULE AssignContract ---------------------------
(***************************************************************************)
(* What discovery promises about the auto-assign jobs of one site and the  *)
(* devices they make: a job is asked once for its candidates and answers   *)
(* each of them once, an answer is never taken back, a success names a     *)
(* device that was there, and a job that says COMPLETED has answered them  *)
(* all and counted its answers.  The devices themselves come and go, by    *)
(* anybody's hand, with names and addresses that are never shared.         *)
(*                                                                         *)
(* Nothing here knows of scans, reviews, transactions or workers:          *)
(* Discovery does, and implements this specification.                      *)
(***************************************************************************)
EXTENDS Naturals, FiniteSets

CONSTANTS Jobs, Candidates, Devices,
          NoDevice,     \* what a failed answer may name
          None, Gone    \* a row before its insertion, and after its deletion

VARIABLES
    status,     \* status[j]: AutoAssignJob.status, "new" before the row
    wanted,     \* wanted[j]: the candidates j was asked for
    items,      \* the answers, AutoAssignJobItem rows
    counts,     \* counts[j]: the counts a COMPLETED job shows, or None
    device      \* device[d]: the Device row d

jobs == <<status, wanted, items, counts>>
rows == <<jobs, device>>

There(d) == device[d] \notin {None, Gone}
Apart == \A d, e \in Devices :
            There(d) /\ There(e) /\ d # e => /\ device[d].name # device[e].name
                                             /\ device[d].ip # device[e].ip

Mine(j) == {it \in items : it.job = j}
Answered(j) == {it.of : it \in Mine(j)}
Count(j, ok) == Cardinality({it \in Mine(j) : it.ok = ok})

Init == /\ status = [j \in Jobs |-> "new"]
        /\ wanted = [j \in Jobs |-> {}]
        /\ items = {}
        /\ counts = [j \in Jobs |-> None]
        /\ Apart

Move(j, from, to) == status[j] = from /\ status' = [status EXCEPT ![j] = to]

Ask(j) == /\ Move(j, "new", "pending")
          /\ \E asked \in SUBSET Candidates :
                asked # {} /\ wanted' = [wanted EXCEPT ![j] = asked]
          /\ UNCHANGED <<items, counts, device>>

Start(j) == Move(j, "pending", "running") /\ UNCHANGED <<wanted, items, counts, device>>

\* One answer to a candidate that has none yet.
Answer(j) ==
    /\ status[j] = "running"
    /\ \E c \in wanted[j] \ Answered(j), ok \in BOOLEAN, d \in Devices \cup {NoDevice} :
         /\ d = NoDevice => ~ok
         /\ d # NoDevice => There(d)
         /\ items' = items \cup {[job |-> j, of |-> c, ok |-> ok, device |-> d]}
    /\ UNCHANGED <<status, wanted, counts, device>>

Complete(j) ==
    /\ Answered(j) = wanted[j] /\ Move(j, "running", "completed")
    /\ counts' = [counts EXCEPT ![j] = [ok |-> Count(j, TRUE), bad |-> Count(j, FALSE)]]
    /\ UNCHANGED <<wanted, items, device>>

Fail(j) == Move(j, "running", "failed") /\ UNCHANGED <<wanted, items, counts, device>>

\* Devices are inserted, edited and deleted, and a deleted one may return; none
\* takes the name or the address of another.
Register ==
    /\ Apart'
    /\ \A d \in Devices : device[d] # None => device'[d] # None
    /\ UNCHANGED jobs

Next == Register \/ \E j \in Jobs : Ask(j) \/ Start(j) \/ Answer(j) \/ Complete(j) \/ Fail(j)

Spec == Init /\ [][Next]_rows
=============================================================================

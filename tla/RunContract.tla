---------------------------- MODULE RunContract ----------------------------
(***************************************************************************)
(* What the automation spine promises about one JobRun row and the         *)
(* AutomationJob row it belongs to, whoever writes them: the run's status  *)
(* moves forward, a SUCCESS may only be revised to FAILED before the job   *)
(* was told, the job repeats the run's verdict and never anticipates it,   *)
(* and a deleted row stays deleted.                                        *)
(*                                                                         *)
(* Nothing here knows of tasks, workers or the broker: JobLifecycle does,  *)
(* and implements this specification.                                      *)
(***************************************************************************)
CONSTANT Runs

VARIABLES
    run,    \* run[r]: status of JobRun r, "new" before and "deleted" after it
    job     \* job[r]: status of the AutomationJob created together with r

rows == <<run, job>>

Final == {"success", "failed"}
RunStatus == {"new", "pending", "queued", "running", "deleted"} \cup Final
JobStatus == {"new", "pending", "deleted"} \cup Final

TypeOK == /\ run \in [Runs -> RunStatus]
          /\ job \in [Runs -> JobStatus]

Init == /\ run = [r \in Runs |-> "new"]
        /\ job = [r \in Runs |-> "new"]

MoveRun(r, from, to) == /\ run[r] = from
                        /\ run' = [run EXCEPT ![r] = to]
                        /\ job' = job

Open(r) == /\ run[r] = "new"
           /\ job[r] = "new"
           /\ run' = [run EXCEPT ![r] = "pending"]
           /\ job' = [job EXCEPT ![r] = "pending"]

\* The verdict may be taken back as long as the job has not repeated it.
Revise(r) == job[r] = "pending" /\ MoveRun(r, "success", "failed")

\* The job learns the verdict; if the run is gone, it keeps the last one known.
Settle(r) == /\ job[r] = "pending"
             /\ \E verdict \in Final :
                   /\ run[r] \in {verdict, "deleted"}
                   /\ job' = [job EXCEPT ![r] = verdict]
             /\ run' = run

Drop(status, gone) ==
    [r \in Runs |-> IF r \in gone /\ status[r] # "new" THEN "deleted" ELSE status[r]]

DropRuns(gone) == run' = Drop(run, gone) /\ job' = job
DropJobs(gone) == run' = Drop(run, gone) /\ job' = Drop(job, gone)

Next == \/ \E r \in Runs : \/ Open(r)
                           \/ MoveRun(r, "pending", "queued")
                           \/ MoveRun(r, "queued", "running")
                           \/ \E verdict \in Final : MoveRun(r, "running", verdict)
                           \/ Revise(r)
                           \/ Settle(r)
        \/ \E gone \in SUBSET Runs : DropRuns(gone) \/ DropJobs(gone)

Spec == Init /\ [][Next]_rows
=============================================================================

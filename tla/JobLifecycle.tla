---------------------------- MODULE JobLifecycle ----------------------------
(***************************************************************************)
(* The automation spine: a scheduled task creates an AutomationJob with    *)
(* its JobRun, marks the run QUEUED and publishes a Celery message; a      *)
(* worker loads the run, marks it RUNNING, executes it and persists the    *)
(* verdict on the run, then on the job, then finished_at.                  *)
(*                                                                         *)
(* One action per database transaction: outside create_*_job every save()  *)
(* commits by itself, so crashes, deletions and the nightly cleanup fall   *)
(* between any two of them.  save(update_fields=...) on a row that is gone *)
(* raises DatabaseError instead of inserting it again.  Celery             *)
(* acknowledges a message before it runs the task, so a crash loses it.    *)
(***************************************************************************)
EXTENDS Naturals, FiniteSets

CONSTANTS
    Runs,           \* the runs that may be created, each with its own job
    Reachability,   \* those of a reachability job; the others are backups
    Workers,        \* Celery worker processes
    NoRun,          \* not a run
    MaxCrashes,     \* bound: processes killed in the middle of a task
    MaxFaults       \* bound: saves or publishes that raise on a live row

ASSUME RunsAssumption == Reachability \subseteq Runs /\ NoRun \notin Runs
ASSUME BoundsAssumption == MaxCrashes \in Nat /\ MaxFaults \in Nat

VARIABLES
    run,        \* run[r]: JobRun.status, "new" before the row, "deleted" after
    job,        \* job[r]: AutomationJob.status of r's job
    finished,   \* finished[r]: JobRun.finished_at is set
    lastRun,    \* whose start SystemSettings.reachability_last_run records
    starter,    \* starter[r]: progress of the scheduled task that starts r
    queue,      \* messages in Redis
    worker,     \* worker[w]: the task process w is in, and its next statement
    cleaner,    \* cleanup_reachability_history: next statement, runs before cutoff
    swept,      \* history: runs deleted by cleanup_reachability_history
    crashes, faults

vars == <<run, job, finished, lastRun, starter, queue, worker, cleaner, swept,
          crashes, faults>>

Contract == INSTANCE RunContract WITH Runs <- Runs, run <- run, job <- job

Final == {"success", "failed"}
StarterSteps == {"idle", "created", "stamped", "queued", "done"}
WorkerSteps == {"idle", "loaded", "running", "saveRunOk", "saveJobOk",
                "saveRunFailed", "saveJobFailed", "finally"}
Idle == [at |-> "idle", on |-> NoRun]
Row(status, r) == status[r] \notin {"new", "deleted"}

TypeOK ==
    /\ run \in [Runs -> {"new", "pending", "queued", "running", "deleted"} \cup Final]
    /\ job \in [Runs -> {"new", "pending", "deleted"} \cup Final]
    /\ finished \in [Runs -> BOOLEAN]
    /\ lastRun \in Reachability \cup {NoRun}
    /\ starter \in [Runs -> StarterSteps]
    /\ queue \subseteq Runs
    /\ worker \in [Workers -> [at : WorkerSteps, on : Runs \cup {NoRun}]]
    /\ cleaner \in [at : {"idle", "jobs"}, old : SUBSET Reachability]
    /\ swept \subseteq Reachability
    /\ crashes \in 0..MaxCrashes
    /\ faults \in 0..MaxFaults

Init ==
    /\ run = [r \in Runs |-> "new"]
    /\ job = [r \in Runs |-> "new"]
    /\ finished = [r \in Runs |-> FALSE]
    /\ lastRun = NoRun
    /\ starter = [r \in Runs |-> "idle"]
    /\ queue = {}
    /\ worker = [w \in Workers |-> Idle]
    /\ cleaner = [at |-> "idle", old |-> {}]
    /\ swept = {}
    /\ crashes = 0
    /\ faults = 0

\* A statement raises because its row is gone or, within MaxFaults, because
\* the database or the broker failed.
Raises(live) == IF live THEN faults < MaxFaults /\ faults' = faults + 1
                        ELSE faults' = faults

Dies == crashes < MaxCrashes /\ crashes' = crashes + 1

-----------------------------------------------------------------------------
(* run_scheduled_reachability, run_scheduled_config_backup                  *)

Starts(r, from, to) == /\ starter[r] = from
                       /\ starter' = [starter EXCEPT ![r] = to]
                       /\ UNCHANGED <<finished, worker, cleaner, swept>>

\* Regression: every job stamps reachability_last_run, backups too.
CreateJobStampsAll(r) ==
    /\ Starts(r, "idle", "created")
    /\ job' = [job EXCEPT ![r] = "pending"]
    /\ run' = [run EXCEPT ![r] = "pending"]
    /\ UNCHANGED <<lastRun, queue, crashes, faults>>

\* create_backup_job / create_reachability_job: both rows in one transaction.
CreateJob(r) ==
    /\ Starts(r, "idle", IF r \in Reachability THEN "created" ELSE "stamped")
    /\ job' = [job EXCEPT ![r] = "pending"]
    /\ run' = [run EXCEPT ![r] = "pending"]
    /\ UNCHANGED <<lastRun, queue, crashes, faults>>

\* update_reachability_last_run comes before the dispatch.
StampLastRun(r) ==
    /\ Starts(r, "created", "stamped")
    /\ lastRun' = r
    /\ UNCHANGED <<run, job, queue, crashes, faults>>

MarkQueued(r) ==
    /\ Starts(r, "stamped", "queued")
    /\ Row(run, r)
    /\ run' = [run EXCEPT ![r] = "queued"]
    /\ UNCHANGED <<job, lastRun, queue, crashes, faults>>

Publish(r) ==
    /\ Starts(r, "queued", "done")
    /\ queue' = queue \cup {r}
    /\ UNCHANGED <<run, job, lastRun, crashes, faults>>

\* The task ends early: a statement raises, or the process is killed.
StarterStops(r) ==
    /\ \E from \in {"created", "stamped", "queued"} : Starts(r, from, "done")
    /\ \/ Raises(starter[r] # "stamped" \/ Row(run, r)) /\ crashes' = crashes
       \/ Dies /\ faults' = faults
    /\ UNCHANGED <<run, job, lastRun, queue>>

-----------------------------------------------------------------------------
(* run_reachability_job, run_backup_job on worker process w                 *)

Becomes(w, to) == worker' = [worker EXCEPT ![w].at = to]
Leaves(w) == worker' = [worker EXCEPT ![w] = Idle]
WorkerKeeps == UNCHANGED <<lastRun, starter, cleaner, swept, crashes>>

\* Regression: acks_late, the message stays in Redis while the task runs.
TakeAcksLate(w, r) ==
    /\ worker[w] = Idle
    /\ r \in queue
    /\ worker' = IF Row(run, r)
                 THEN [worker EXCEPT ![w] = [at |-> "loaded", on |-> r]]
                 ELSE worker
    /\ UNCHANGED <<run, job, finished, queue, faults>> /\ WorkerKeeps

\* Regression: the task returns early unless the run is PENDING.
TakePendingOnly(w, r) ==
    /\ worker[w] = Idle
    /\ r \in queue
    /\ queue' = queue \ {r}
    /\ worker' = IF run[r] = "pending"
                 THEN [worker EXCEPT ![w] = [at |-> "loaded", on |-> r]]
                 ELSE worker
    /\ UNCHANGED <<run, job, finished, faults>> /\ WorkerKeeps

\* The message is acknowledged and the run loaded; DoesNotExist ends the task.
Take(w, r) ==
    /\ worker[w] = Idle
    /\ r \in queue
    /\ queue' = queue \ {r}
    /\ worker' = IF Row(run, r)
                 THEN [worker EXCEPT ![w] = [at |-> "loaded", on |-> r]]
                 ELSE worker
    /\ UNCHANGED <<run, job, finished, faults>> /\ WorkerKeeps

\* Regression: save() without update_fields inserts a deleted row again.
SavesInsert(w, from, status, write, returns, raises) ==
    LET r == worker[w].on IN
    /\ worker[w].at = from
    /\ \/ /\ write /\ faults' = faults
          /\ IF returns = "idle" THEN Leaves(w) ELSE Becomes(w, returns)
       \/ /\ Raises(Row(status, r))
          /\ IF raises = "idle" THEN Leaves(w) ELSE Becomes(w, raises)
          /\ UNCHANGED <<run, job, finished>>
    /\ UNCHANGED queue /\ WorkerKeeps

\* One save of the task: the step it is in, the step after a normal return,
\* and the step after an exception ("idle" when the exception leaves the task).
Saves(w, from, status, write, returns, raises) ==
    LET r == worker[w].on IN
    /\ worker[w].at = from
    /\ \/ /\ Row(status, r) /\ write /\ faults' = faults
          /\ IF returns = "idle" THEN Leaves(w) ELSE Becomes(w, returns)
       \/ /\ Raises(Row(status, r))
          /\ IF raises = "idle" THEN Leaves(w) ELSE Becomes(w, raises)
          /\ UNCHANGED <<run, job, finished>>
    /\ UNCHANGED queue /\ WorkerKeeps

WritesRun(w, status) == /\ run' = [run EXCEPT ![worker[w].on] = status]
                        /\ UNCHANGED <<job, finished>>
WritesJob(w, status) == /\ job' = [job EXCEPT ![worker[w].on] = status]
                        /\ UNCHANGED <<run, finished>>

\* Before the try block: an exception ends the task and nothing is recorded.
MarkRunning(w) == Saves(w, "loaded", run, WritesRun(w, "running"), "running", "idle")

\* Regression: the job is told before the run is saved.
ExecuteTellsJobFirst(w) ==
    /\ worker[w].at = "running"
    /\ \E to \in {"saveJobOk", "saveRunFailed"} : Becomes(w, to)
    /\ UNCHANGED <<run, job, finished, queue, faults>> /\ WorkerKeeps

\* execute_reachability and persist, or execute_backup, return or raise.
Execute(w) == /\ worker[w].at = "running"
              /\ \E to \in {"saveRunOk", "saveRunFailed"} : Becomes(w, to)
              /\ UNCHANGED <<run, job, finished, queue, faults>> /\ WorkerKeeps

\* Regression: finalize_failure forgets the job.
SaveRunFailedOnly(w) ==
    Saves(w, "saveRunFailed", run, WritesRun(w, "failed"), "finally", "finally")
\* Regression: no finally block after a success.
SaveJobOkEnds(w) ==
    Saves(w, "saveJobOk", job, WritesJob(w, "success"), "idle", "saveRunFailed")

\* finalize_success runs inside the try block, finalize_failure in its handler.
SaveRunOk(w) ==
    Saves(w, "saveRunOk", run, WritesRun(w, "success"), "saveJobOk", "saveRunFailed")
SaveJobOk(w) ==
    Saves(w, "saveJobOk", job, WritesJob(w, "success"), "finally", "saveRunFailed")
SaveRunFailed(w) ==
    Saves(w, "saveRunFailed", run, WritesRun(w, "failed"), "saveJobFailed", "finally")
SaveJobFailed(w) ==
    Saves(w, "saveJobFailed", job, WritesJob(w, "failed"), "finally", "finally")

SaveFinishedAt(w) ==
    Saves(w, "finally", run,
          finished' = [finished EXCEPT ![worker[w].on] = TRUE] /\ UNCHANGED <<run, job>>,
          "idle", "idle")

\* The process is killed; the acknowledged message is not delivered again.
WorkerDies(w) == /\ worker[w] # Idle
                 /\ Dies
                 /\ Leaves(w)
                 /\ UNCHANGED <<run, job, finished, lastRun, starter, queue, cleaner,
                                swept, faults>>

-----------------------------------------------------------------------------
(* Deletions                                                                *)

DeletesKeep == UNCHANGED <<finished, lastRun, starter, queue, worker, crashes, faults>>

\* runs.delete(): the reachability runs created before the cutoff.
CleanupRuns ==
    /\ cleaner.at = "idle"
    /\ \E old \in SUBSET {r \in Reachability : Row(run, r)} :
          /\ cleaner' = [at |-> "jobs", old |-> old]
          /\ run' = Contract!Drop(run, old)
          /\ swept' = swept \cup old
    /\ job' = job
    /\ DeletesKeep

\* job_ids is a lazy queryset over the same runs, evaluated by this statement.
CleanupJobs ==
    LET jobIds == {r \in cleaner.old : Row(run, r)} IN
    /\ cleaner.at = "jobs"
    /\ cleaner' = [at |-> "idle", old |-> {}]
    /\ job' = Contract!Drop(job, jobIds)
    /\ run' = Contract!Drop(run, jobIds)
    /\ swept' = swept
    /\ DeletesKeep

\* The cleanup process is killed between its two statements.
CleanupDies == /\ cleaner.at = "jobs"
               /\ Dies
               /\ cleaner' = [at |-> "idle", old |-> {}]
               /\ UNCHANGED <<run, job, finished, lastRun, starter, queue, worker,
                              swept, faults>>

\* DELETE through the API or the admin; deleting a job cascades to its run.
DeleteRun(r) == /\ Row(run, r)
                /\ run' = [run EXCEPT ![r] = "deleted"]
                /\ UNCHANGED <<job, cleaner, swept>> /\ DeletesKeep
DeleteJob(r) == /\ Row(job, r)
                /\ job' = [job EXCEPT ![r] = "deleted"]
                /\ run' = [run EXCEPT ![r] = "deleted"]
                /\ UNCHANGED <<cleaner, swept>> /\ DeletesKeep

-----------------------------------------------------------------------------
StarterNext(r) == \/ CreateJob(r) \/ StampLastRun(r) \/ MarkQueued(r)
                  \/ Publish(r) \/ StarterStops(r)

Task(w) == \/ MarkRunning(w) \/ Execute(w) \/ SaveRunOk(w) \/ SaveJobOk(w)
           \/ SaveRunFailed(w) \/ SaveJobFailed(w) \/ SaveFinishedAt(w)

Next == \/ \E r \in Runs : StarterNext(r) \/ DeleteRun(r) \/ DeleteJob(r)
        \/ \E w \in Workers : Task(w) \/ WorkerDies(w) \/ \E r \in Runs : Take(w, r)
        \/ CleanupRuns \/ CleanupJobs \/ CleanupDies

Spec == Init /\ [][Next]_vars

\* A started task keeps running and a free worker keeps taking messages; what
\* beat starts, what an operator deletes and what fails is left open.
Fairness ==
    /\ \A r \in Runs : WF_vars(StarterNext(r) /\ starter[r] # "idle")
    /\ \A w \in Workers : WF_vars(Task(w))
    /\ \A r \in Runs : SF_vars(\E w \in Workers : Take(w, r))

FairSpec == Spec /\ Fairness

-----------------------------------------------------------------------------
(* Properties                                                               *)

\* The job never anticipates its run: a job that says SUCCESS or FAILED has a
\* run that says the same, or none (finalize_* saves the run first), whatever
\* crashes, failed saves, deletions and cleanups came between the two saves.
JobFollowsRun == \A r \in Runs : job[r] \in Final => run[r] \in {job[r], "deleted"}

\* A run with finished_at has its verdict, and its job too, unless a save
\* failed on a live row: the finally block is reached without finalize_* only
\* when finalize_failure itself raised.
FinishedIsSettled ==
    \A r \in Runs : finished[r] /\ Row(run, r) /\ faults = 0 =>
        run[r] \in Final /\ job[r] = run[r]

\* Nobody works on run r and no message for it is left.
Unattended(r) == /\ starter[r] = "done"
                 /\ r \notin queue
                 /\ \A w \in Workers : worker[w].on # r

\* Without a crash or a failed save no run is left behind: one that nobody
\* works on any more is finished.  (QUEUED is saved before the publish and a
\* worker takes a message at most once.)
NoRunLeftBehind ==
    \A r \in Runs : Unattended(r) /\ Row(run, r) /\ crashes + faults = 0 => finished[r]

\* Two workers never hold the same run, and a run whose message is in Redis is
\* still QUEUED: neither a late starter nor a second task can move it back.
MessageMeansQueued ==
    \A r \in queue : /\ run[r] \in {"queued", "deleted"}
                     /\ \A w \in Workers : worker[w].on # r

\* The two rows follow RunContract: statuses only move forward, a SUCCESS is
\* revised only before the job repeated it, deleted rows are not resurrected.
ImplementsContract == Contract!Spec

\* bootstrap_schedules.py calls the task "Cleanup Reachability Jobs": when it
\* has finished, the jobs of the runs it deleted are gone.
CleanupTakesJobs ==
    cleaner.at = "idle" => \A r \in swept : job[r] = "deleted"

\* Under Fairness each run that was created gets its verdict and finished_at, or
\* is deleted, unless a process was killed or a statement failed on a live row.
RunsComplete ==
    \A r \in Runs : run[r] = "pending" ~>
        finished[r] \/ ~Row(run, r) \/ crashes + faults > 0
=============================================================================

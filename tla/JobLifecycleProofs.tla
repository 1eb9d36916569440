------------------------- MODULE JobLifecycleProofs -------------------------
(***************************************************************************)
(* Proofs about JobLifecycle for any sets of runs and workers and any      *)
(* number of crashes and faults.  IInv strengthens the safety invariants   *)
(* to an inductive one: it follows a run through its starter, the queue    *)
(* and the one worker that holds it, and says what the two rows can read   *)
(* at each statement.                                                      *)
(***************************************************************************)
EXTENDS JobLifecycle, TLAPS

\* Where nobody but the starter can touch r.
StarterInv(r) ==
    /\ starter[r] # "done" => r \notin queue /\ \A w \in Workers : worker[w].on # r
    /\ starter[r] = "idle" <=> run[r] = "new"
    /\ starter[r] = "idle" <=> job[r] = "new"
    /\ starter[r] = "created" => r \in Reachability
    /\ starter[r] \in {"created", "stamped"} => run[r] \in {"pending", "deleted"}
    /\ starter[r] = "queued" => run[r] \in {"queued", "deleted"}
    /\ starter[r] \in {"created", "stamped", "queued"} => job[r] \in {"pending", "deleted"}
    /\ starter[r] # "done" => ~finished[r]

\* Between the publish and the delivery.
QueueInv(r) ==
    r \in queue => /\ run[r] \in {"queued", "deleted"}
                   /\ job[r] \in {"pending", "deleted"}
                   /\ ~finished[r]
                   /\ \A w \in Workers : worker[w].on # r

\* What the worker that is about to execute a statement knows of its two rows.
WorkerInv(w) ==
    LET at == worker[w].at
        r == worker[w].on
    IN  /\ at = "idle" <=> r = NoRun
        /\ at = "loaded" => run[r] \in {"queued", "deleted"}
        /\ at \in {"running", "saveRunOk"} => run[r] \in {"running", "deleted"}
        /\ at = "saveJobOk" => run[r] \in {"success", "deleted"}
        /\ at = "saveRunFailed" => run[r] \in {"running", "success", "deleted"}
        /\ at = "saveJobFailed" => run[r] \in {"failed", "deleted"}
        /\ at \notin {"idle", "finally"} => job[r] \in {"pending", "deleted"}
        /\ at # "idle" => ~finished[r]
        /\ at = "finally" /\ faults = 0 =>
              \/ run[r] = "deleted"
              \/ run[r] \in Final /\ job[r] = run[r]

OneHolder == \A v, w \in Workers :
                worker[v].on = worker[w].on /\ worker[v].on # NoRun => v = w

\* Deleting a job deletes its run.
Cascade == \A r \in Runs : job[r] = "deleted" => run[r] = "deleted"

IInv == /\ TypeOK
        /\ OneHolder
        /\ Cascade
        /\ \A r \in Runs : StarterInv(r) /\ QueueInv(r)
        /\ \A w \in Workers : WorkerInv(w)
        /\ JobFollowsRun
        /\ FinishedIsSettled
        /\ NoRunLeftBehind

(***************************************************************************)
(* Each action preserves IInv: one lemma per action, one step per conjunct *)
(***************************************************************************)

\* CreateJob preserves the inductive invariant.
LEMMA CreateJobInv ==
  ASSUME IInv, NEW r0 \in Runs, CreateJob(r0)
  PROVE  IInv'
<1> USE RunsAssumption, BoundsAssumption
        DEF IInv, TypeOK, Final, StarterSteps, WorkerSteps, Row,
            CreateJob, Starts
<1>1. TypeOK'  BY DEF StarterInv, WorkerInv
<1>2. OneHolder'  BY DEF OneHolder, QueueInv
<1>3. Cascade'  BY DEF Cascade, StarterInv
<1>4. (\A r \in Runs : StarterInv(r))'  BY DEF StarterInv, QueueInv, WorkerInv
<1>5. (\A r \in Runs : QueueInv(r))'  BY DEF StarterInv, QueueInv, WorkerInv
<1>6. (\A w \in Workers : WorkerInv(w))'  BY DEF OneHolder, Cascade, StarterInv, QueueInv, WorkerInv
<1>7. JobFollowsRun'  BY DEF JobFollowsRun, StarterInv, QueueInv, WorkerInv
<1>8. FinishedIsSettled'  BY DEF FinishedIsSettled, StarterInv, WorkerInv
<1>9. NoRunLeftBehind'  BY DEF NoRunLeftBehind, Unattended, StarterInv
<1> QED BY <1>1, <1>2, <1>3, <1>4, <1>5, <1>6, <1>7, <1>8, <1>9

\* StampLastRun preserves the inductive invariant.
LEMMA StampLastRunInv ==
  ASSUME IInv, NEW r0 \in Runs, StampLastRun(r0)
  PROVE  IInv'
<1> USE RunsAssumption, BoundsAssumption
        DEF IInv, TypeOK, Final, StarterSteps, WorkerSteps, Row,
            StampLastRun, Starts
<1>1. TypeOK'  BY DEF StarterInv, WorkerInv
<1>2. OneHolder'  BY DEF OneHolder, QueueInv
<1>3. Cascade'  BY DEF Cascade, StarterInv
<1>4. (\A r \in Runs : StarterInv(r))'  BY DEF StarterInv, QueueInv, WorkerInv
<1>5. (\A r \in Runs : QueueInv(r))'  BY DEF StarterInv, QueueInv, WorkerInv
<1>6. (\A w \in Workers : WorkerInv(w))'  BY DEF OneHolder, Cascade, StarterInv, QueueInv, WorkerInv
<1>7. JobFollowsRun'  BY DEF JobFollowsRun, StarterInv, QueueInv, WorkerInv
<1>8. FinishedIsSettled'  BY DEF FinishedIsSettled, StarterInv, WorkerInv
<1>9. NoRunLeftBehind'  BY DEF NoRunLeftBehind, Unattended, StarterInv
<1> QED BY <1>1, <1>2, <1>3, <1>4, <1>5, <1>6, <1>7, <1>8, <1>9

\* MarkQueued preserves the inductive invariant.
LEMMA MarkQueuedInv ==
  ASSUME IInv, NEW r0 \in Runs, MarkQueued(r0)
  PROVE  IInv'
<1> USE RunsAssumption, BoundsAssumption
        DEF IInv, TypeOK, Final, StarterSteps, WorkerSteps, Row,
            MarkQueued, Starts
<1>1. TypeOK'  BY DEF StarterInv, WorkerInv
<1>2. OneHolder'  BY DEF OneHolder, QueueInv
<1>3. Cascade'  BY DEF Cascade, StarterInv
<1>4. (\A r \in Runs : StarterInv(r))'  BY DEF StarterInv, QueueInv, WorkerInv
<1>5. (\A r \in Runs : QueueInv(r))'  BY DEF StarterInv, QueueInv, WorkerInv
<1>6. (\A w \in Workers : WorkerInv(w))'  BY DEF OneHolder, Cascade, StarterInv, QueueInv, WorkerInv
<1>7. JobFollowsRun'  BY DEF JobFollowsRun, StarterInv, QueueInv, WorkerInv
<1>8. FinishedIsSettled'  BY DEF FinishedIsSettled, StarterInv, WorkerInv
<1>9. NoRunLeftBehind'  BY DEF NoRunLeftBehind, Unattended, StarterInv
<1> QED BY <1>1, <1>2, <1>3, <1>4, <1>5, <1>6, <1>7, <1>8, <1>9

\* Publish preserves the inductive invariant.
LEMMA PublishInv ==
  ASSUME IInv, NEW r0 \in Runs, Publish(r0)
  PROVE  IInv'
<1> USE RunsAssumption, BoundsAssumption
        DEF IInv, TypeOK, Final, StarterSteps, WorkerSteps, Row,
            Publish, Starts
<1>1. TypeOK'  BY DEF StarterInv, WorkerInv
<1>2. OneHolder'  BY DEF OneHolder, QueueInv
<1>3. Cascade'  BY DEF Cascade, StarterInv
<1>4. (\A r \in Runs : StarterInv(r))'  BY DEF StarterInv, QueueInv, WorkerInv
<1>5. (\A r \in Runs : QueueInv(r))'  BY DEF StarterInv, QueueInv, WorkerInv
<1>6. (\A w \in Workers : WorkerInv(w))'  BY DEF OneHolder, Cascade, StarterInv, QueueInv, WorkerInv
<1>7. JobFollowsRun'  BY DEF JobFollowsRun, StarterInv, QueueInv, WorkerInv
<1>8. FinishedIsSettled'  BY DEF FinishedIsSettled, StarterInv, WorkerInv
<1>9. NoRunLeftBehind'  BY DEF NoRunLeftBehind, Unattended, StarterInv
<1> QED BY <1>1, <1>2, <1>3, <1>4, <1>5, <1>6, <1>7, <1>8, <1>9

\* StarterStops preserves the inductive invariant.
LEMMA StarterStopsInv ==
  ASSUME IInv, NEW r0 \in Runs, StarterStops(r0)
  PROVE  IInv'
<1> USE RunsAssumption, BoundsAssumption
        DEF IInv, TypeOK, Final, StarterSteps, WorkerSteps, Row,
            StarterStops, Starts, Raises, Dies
<1>1. TypeOK'  BY DEF StarterInv, WorkerInv
<1>2. OneHolder'  BY DEF OneHolder, QueueInv
<1>3. Cascade'  BY DEF Cascade, StarterInv
<1>4. (\A r \in Runs : StarterInv(r))'  BY DEF StarterInv, QueueInv, WorkerInv
<1>5. (\A r \in Runs : QueueInv(r))'  BY DEF StarterInv, QueueInv, WorkerInv
<1>6. (\A w \in Workers : WorkerInv(w))'  BY DEF OneHolder, Cascade, StarterInv, QueueInv, WorkerInv
<1>7. JobFollowsRun'  BY DEF JobFollowsRun, StarterInv, QueueInv, WorkerInv
<1>8. FinishedIsSettled'  BY DEF FinishedIsSettled, StarterInv, WorkerInv
<1>9. NoRunLeftBehind'  BY DEF NoRunLeftBehind, Unattended, StarterInv
<1> QED BY <1>1, <1>2, <1>3, <1>4, <1>5, <1>6, <1>7, <1>8, <1>9

\* Take preserves the inductive invariant.
LEMMA TakeInv ==
  ASSUME IInv, NEW w0 \in Workers, NEW r0 \in Runs, Take(w0, r0)
  PROVE  IInv'
<1> USE RunsAssumption, BoundsAssumption
        DEF IInv, TypeOK, Final, StarterSteps, WorkerSteps, Row,
            Take, WorkerKeeps, Idle
<1>1. TypeOK'  BY DEF StarterInv, WorkerInv
<1>2. OneHolder'  BY DEF OneHolder, QueueInv
<1>3. Cascade'  BY DEF Cascade, StarterInv
<1>4. (\A r \in Runs : StarterInv(r))'  BY DEF StarterInv, QueueInv, WorkerInv
<1>5. (\A r \in Runs : QueueInv(r))'  BY DEF StarterInv, QueueInv, WorkerInv
<1>6. (\A w \in Workers : WorkerInv(w))'  BY DEF OneHolder, Cascade, StarterInv, QueueInv, WorkerInv
<1>7. JobFollowsRun'  BY DEF JobFollowsRun, StarterInv, QueueInv, WorkerInv
<1>8. FinishedIsSettled'  BY DEF FinishedIsSettled, StarterInv, WorkerInv
<1>9. NoRunLeftBehind'  BY DEF NoRunLeftBehind, Unattended, StarterInv
<1> QED BY <1>1, <1>2, <1>3, <1>4, <1>5, <1>6, <1>7, <1>8, <1>9

\* MarkRunning preserves the inductive invariant.
LEMMA MarkRunningInv ==
  ASSUME IInv, NEW w0 \in Workers, MarkRunning(w0)
  PROVE  IInv'
<1> USE RunsAssumption, BoundsAssumption
        DEF IInv, TypeOK, Final, StarterSteps, WorkerSteps, Row,
            MarkRunning, WritesRun, Saves, Becomes, Leaves, Raises, WorkerKeeps, Idle
<1>1. TypeOK'  BY SMTT(30) DEF StarterInv, WorkerInv
<1>2. OneHolder'  BY DEF OneHolder, QueueInv
<1>3. Cascade'  BY DEF Cascade, StarterInv
<1>4. (\A r \in Runs : StarterInv(r))'  BY DEF StarterInv, QueueInv, WorkerInv
<1>5. (\A r \in Runs : QueueInv(r))'  BY DEF StarterInv, QueueInv, WorkerInv
<1>6. (\A w \in Workers : WorkerInv(w))'  BY DEF OneHolder, Cascade, StarterInv, QueueInv, WorkerInv
<1>7. JobFollowsRun'  BY DEF JobFollowsRun, StarterInv, QueueInv, WorkerInv
<1>8. FinishedIsSettled'  BY DEF FinishedIsSettled, StarterInv, WorkerInv
<1>9. NoRunLeftBehind'  BY SMTT(30) DEF NoRunLeftBehind, Unattended, StarterInv
<1> QED BY <1>1, <1>2, <1>3, <1>4, <1>5, <1>6, <1>7, <1>8, <1>9

\* Execute preserves the inductive invariant.
LEMMA ExecuteInv ==
  ASSUME IInv, NEW w0 \in Workers, Execute(w0)
  PROVE  IInv'
<1> USE RunsAssumption, BoundsAssumption
        DEF IInv, TypeOK, Final, StarterSteps, WorkerSteps, Row,
            Execute, Becomes, WorkerKeeps
<1>1. TypeOK'  BY DEF StarterInv, WorkerInv
<1>2. OneHolder'  BY DEF OneHolder, QueueInv
<1>3. Cascade'  BY DEF Cascade, StarterInv
<1>4. (\A r \in Runs : StarterInv(r))'  BY DEF StarterInv, QueueInv, WorkerInv
<1>5. (\A r \in Runs : QueueInv(r))'  BY DEF StarterInv, QueueInv, WorkerInv
<1>6. (\A w \in Workers : WorkerInv(w))'  BY DEF OneHolder, Cascade, StarterInv, QueueInv, WorkerInv
<1>7. JobFollowsRun'  BY DEF JobFollowsRun, StarterInv, QueueInv, WorkerInv
<1>8. FinishedIsSettled'  BY DEF FinishedIsSettled, StarterInv, WorkerInv
<1>9. NoRunLeftBehind'  BY DEF NoRunLeftBehind, Unattended, StarterInv
<1> QED BY <1>1, <1>2, <1>3, <1>4, <1>5, <1>6, <1>7, <1>8, <1>9

\* SaveRunOk preserves the inductive invariant.
LEMMA SaveRunOkInv ==
  ASSUME IInv, NEW w0 \in Workers, SaveRunOk(w0)
  PROVE  IInv'
<1> USE RunsAssumption, BoundsAssumption
        DEF IInv, TypeOK, Final, StarterSteps, WorkerSteps, Row,
            SaveRunOk, WritesRun, Saves, Becomes, Leaves, Raises, WorkerKeeps, Idle
<1>1. TypeOK'  BY SMTT(30) DEF StarterInv, WorkerInv
<1>2. OneHolder'  BY DEF OneHolder, QueueInv
<1>3. Cascade'  BY DEF Cascade, StarterInv
<1>4. (\A r \in Runs : StarterInv(r))'  BY DEF StarterInv, QueueInv, WorkerInv
<1>5. (\A r \in Runs : QueueInv(r))'  BY DEF StarterInv, QueueInv, WorkerInv
<1>6. (\A w \in Workers : WorkerInv(w))'  BY DEF OneHolder, Cascade, StarterInv, QueueInv, WorkerInv
<1>7. JobFollowsRun'  BY DEF JobFollowsRun, StarterInv, QueueInv, WorkerInv
<1>8. FinishedIsSettled'  BY DEF FinishedIsSettled, StarterInv, WorkerInv
<1>9. NoRunLeftBehind'  BY SMTT(30) DEF NoRunLeftBehind, Unattended, StarterInv
<1> QED BY <1>1, <1>2, <1>3, <1>4, <1>5, <1>6, <1>7, <1>8, <1>9

\* SaveJobOk preserves the inductive invariant.
LEMMA SaveJobOkInv ==
  ASSUME IInv, NEW w0 \in Workers, SaveJobOk(w0)
  PROVE  IInv'
<1> USE RunsAssumption, BoundsAssumption
        DEF IInv, TypeOK, Final, StarterSteps, WorkerSteps, Row,
            SaveJobOk, WritesJob, Saves, Becomes, Leaves, Raises, WorkerKeeps, Idle
<1>1. TypeOK'  BY SMTT(30) DEF StarterInv, WorkerInv
<1>2. OneHolder'  BY DEF OneHolder, QueueInv
<1>3. Cascade'  BY DEF Cascade, StarterInv
<1>4. (\A r \in Runs : StarterInv(r))'  BY DEF StarterInv, QueueInv, WorkerInv
<1>5. (\A r \in Runs : QueueInv(r))'  BY DEF StarterInv, QueueInv, WorkerInv
<1>6. (\A w \in Workers : WorkerInv(w))'  BY DEF OneHolder, Cascade, StarterInv, QueueInv, WorkerInv
<1>7. JobFollowsRun'  BY DEF JobFollowsRun, StarterInv, QueueInv, WorkerInv
<1>8. FinishedIsSettled'  BY DEF FinishedIsSettled, StarterInv, WorkerInv
<1>9. NoRunLeftBehind'  BY SMTT(30) DEF NoRunLeftBehind, Unattended, StarterInv
<1> QED BY <1>1, <1>2, <1>3, <1>4, <1>5, <1>6, <1>7, <1>8, <1>9

\* SaveRunFailed preserves the inductive invariant.
LEMMA SaveRunFailedInv ==
  ASSUME IInv, NEW w0 \in Workers, SaveRunFailed(w0)
  PROVE  IInv'
<1> USE RunsAssumption, BoundsAssumption
        DEF IInv, TypeOK, Final, StarterSteps, WorkerSteps, Row,
            SaveRunFailed, WritesRun, Saves, Becomes, Leaves, Raises, WorkerKeeps, Idle
<1>1. TypeOK'  BY SMTT(30) DEF StarterInv, WorkerInv
<1>2. OneHolder'  BY DEF OneHolder, QueueInv
<1>3. Cascade'  BY DEF Cascade, StarterInv
<1>4. (\A r \in Runs : StarterInv(r))'  BY SMTT(30) DEF StarterInv, QueueInv, WorkerInv
<1>5. (\A r \in Runs : QueueInv(r))'  BY SMTT(30) DEF StarterInv, QueueInv, WorkerInv
<1>6. (\A w \in Workers : WorkerInv(w))'  BY DEF OneHolder, Cascade, StarterInv, QueueInv, WorkerInv
<1>7. JobFollowsRun'  BY DEF JobFollowsRun, StarterInv, QueueInv, WorkerInv
<1>8. FinishedIsSettled'  BY DEF FinishedIsSettled, StarterInv, WorkerInv
<1>9. NoRunLeftBehind'  BY SMTT(30) DEF NoRunLeftBehind, Unattended, StarterInv
<1> QED BY <1>1, <1>2, <1>3, <1>4, <1>5, <1>6, <1>7, <1>8, <1>9

\* SaveJobFailed preserves the inductive invariant.
LEMMA SaveJobFailedInv ==
  ASSUME IInv, NEW w0 \in Workers, SaveJobFailed(w0)
  PROVE  IInv'
<1> USE RunsAssumption, BoundsAssumption
        DEF IInv, TypeOK, Final, StarterSteps, WorkerSteps, Row,
            SaveJobFailed, WritesJob, Saves, Becomes, Leaves, Raises, WorkerKeeps, Idle
<1>1. TypeOK'  BY SMTT(30) DEF StarterInv, WorkerInv
<1>2. OneHolder'  BY DEF OneHolder, QueueInv
<1>3. Cascade'  BY DEF Cascade, StarterInv
<1>4. (\A r \in Runs : StarterInv(r))'  BY DEF StarterInv, QueueInv, WorkerInv
<1>5. (\A r \in Runs : QueueInv(r))'  BY DEF StarterInv, QueueInv, WorkerInv
<1>6. (\A w \in Workers : WorkerInv(w))'  BY DEF OneHolder, Cascade, StarterInv, QueueInv, WorkerInv
<1>7. JobFollowsRun'  BY DEF JobFollowsRun, StarterInv, QueueInv, WorkerInv
<1>8. FinishedIsSettled'  BY DEF FinishedIsSettled, StarterInv, WorkerInv
<1>9. NoRunLeftBehind'  BY SMTT(30) DEF NoRunLeftBehind, Unattended, StarterInv
<1> QED BY <1>1, <1>2, <1>3, <1>4, <1>5, <1>6, <1>7, <1>8, <1>9

\* SaveFinishedAt preserves the inductive invariant.
LEMMA SaveFinishedAtInv ==
  ASSUME IInv, NEW w0 \in Workers, SaveFinishedAt(w0)
  PROVE  IInv'
<1> USE RunsAssumption, BoundsAssumption
        DEF IInv, TypeOK, Final, StarterSteps, WorkerSteps, Row,
            SaveFinishedAt, Saves, Becomes, Leaves, Raises, WorkerKeeps, Idle
<1>1. TypeOK'
  <2>1. worker[w0].on \in Runs  BY DEF WorkerInv
  <2>2. finished' \in [Runs -> BOOLEAN]  BY <2>1
  <2>3. worker' \in [Workers -> [at : WorkerSteps, on : Runs \cup {NoRun}]]  OBVIOUS
  <2> QED BY <2>2, <2>3
<1>2. OneHolder'  BY DEF OneHolder, QueueInv
<1>3. Cascade'  BY DEF Cascade, StarterInv
<1>4. (\A r \in Runs : StarterInv(r))'  BY DEF StarterInv, QueueInv, WorkerInv
<1>5. (\A r \in Runs : QueueInv(r))'  BY DEF StarterInv, QueueInv, WorkerInv
<1>6. (\A w \in Workers : WorkerInv(w))'  BY DEF OneHolder, Cascade, StarterInv, QueueInv, WorkerInv
<1>7. JobFollowsRun'  BY DEF JobFollowsRun, StarterInv, QueueInv, WorkerInv
<1>8. FinishedIsSettled'  BY DEF FinishedIsSettled, StarterInv, WorkerInv
<1>9. NoRunLeftBehind'  BY SMTT(30) DEF NoRunLeftBehind, Unattended, StarterInv
<1> QED BY <1>1, <1>2, <1>3, <1>4, <1>5, <1>6, <1>7, <1>8, <1>9

\* WorkerDies preserves the inductive invariant.
LEMMA WorkerDiesInv ==
  ASSUME IInv, NEW w0 \in Workers, WorkerDies(w0)
  PROVE  IInv'
<1> USE RunsAssumption, BoundsAssumption
        DEF IInv, TypeOK, Final, StarterSteps, WorkerSteps, Row,
            WorkerDies, Dies, Leaves, Idle
<1>1. TypeOK'  BY DEF StarterInv, WorkerInv
<1>2. OneHolder'  BY DEF OneHolder, QueueInv
<1>3. Cascade'  BY DEF Cascade, StarterInv
<1>4. (\A r \in Runs : StarterInv(r))'  BY DEF StarterInv, QueueInv, WorkerInv
<1>5. (\A r \in Runs : QueueInv(r))'  BY DEF StarterInv, QueueInv, WorkerInv
<1>6. (\A w \in Workers : WorkerInv(w))'  BY DEF OneHolder, Cascade, StarterInv, QueueInv, WorkerInv
<1>7. JobFollowsRun'  BY DEF JobFollowsRun, StarterInv, QueueInv, WorkerInv
<1>8. FinishedIsSettled'  BY DEF FinishedIsSettled, StarterInv, WorkerInv
<1>9. NoRunLeftBehind'  BY SMTT(30) DEF NoRunLeftBehind, Unattended, StarterInv
<1> QED BY <1>1, <1>2, <1>3, <1>4, <1>5, <1>6, <1>7, <1>8, <1>9

\* CleanupRuns preserves the inductive invariant.
LEMMA CleanupRunsInv ==
  ASSUME IInv, CleanupRuns
  PROVE  IInv'
<1> USE RunsAssumption, BoundsAssumption
        DEF IInv, TypeOK, Final, StarterSteps, WorkerSteps, Row,
            CleanupRuns, DeletesKeep, Contract!Drop
<1>1. TypeOK'  BY DEF StarterInv, WorkerInv
<1>2. OneHolder'  BY DEF OneHolder, QueueInv
<1>3. Cascade'  BY DEF Cascade, StarterInv
<1>4. (\A r \in Runs : StarterInv(r))'  BY DEF StarterInv, QueueInv, WorkerInv
<1>5. (\A r \in Runs : QueueInv(r))'  BY DEF StarterInv, QueueInv, WorkerInv
<1>6. (\A w \in Workers : WorkerInv(w))'  BY DEF OneHolder, Cascade, StarterInv, QueueInv, WorkerInv
<1>7. JobFollowsRun'  BY DEF JobFollowsRun, StarterInv, QueueInv, WorkerInv
<1>8. FinishedIsSettled'  BY DEF FinishedIsSettled, StarterInv, WorkerInv
<1>9. NoRunLeftBehind'  BY DEF NoRunLeftBehind, Unattended, StarterInv
<1> QED BY <1>1, <1>2, <1>3, <1>4, <1>5, <1>6, <1>7, <1>8, <1>9

\* CleanupJobs preserves the inductive invariant.
LEMMA CleanupJobsInv ==
  ASSUME IInv, CleanupJobs
  PROVE  IInv'
<1> USE RunsAssumption, BoundsAssumption
        DEF IInv, TypeOK, Final, StarterSteps, WorkerSteps, Row,
            CleanupJobs, DeletesKeep, Contract!Drop
<1>1. TypeOK'  BY DEF StarterInv, WorkerInv
<1>2. OneHolder'  BY DEF OneHolder, QueueInv
<1>3. Cascade'  BY DEF Cascade, StarterInv
<1>4. (\A r \in Runs : StarterInv(r))'  BY DEF StarterInv, QueueInv, WorkerInv
<1>5. (\A r \in Runs : QueueInv(r))'  BY DEF StarterInv, QueueInv, WorkerInv
<1>6. (\A w \in Workers : WorkerInv(w))'  BY DEF OneHolder, Cascade, StarterInv, QueueInv, WorkerInv
<1>7. JobFollowsRun'  BY DEF JobFollowsRun, StarterInv, QueueInv, WorkerInv
<1>8. FinishedIsSettled'  BY DEF FinishedIsSettled, StarterInv, WorkerInv
<1>9. NoRunLeftBehind'  BY DEF NoRunLeftBehind, Unattended, StarterInv
<1> QED BY <1>1, <1>2, <1>3, <1>4, <1>5, <1>6, <1>7, <1>8, <1>9

\* CleanupDies preserves the inductive invariant.
LEMMA CleanupDiesInv ==
  ASSUME IInv, CleanupDies
  PROVE  IInv'
<1> USE RunsAssumption, BoundsAssumption
        DEF IInv, TypeOK, Final, StarterSteps, WorkerSteps, Row,
            CleanupDies, Dies
<1>1. TypeOK'  BY DEF StarterInv, WorkerInv
<1>2. OneHolder'  BY DEF OneHolder, QueueInv
<1>3. Cascade'  BY DEF Cascade, StarterInv
<1>4. (\A r \in Runs : StarterInv(r))'  BY DEF StarterInv, QueueInv, WorkerInv
<1>5. (\A r \in Runs : QueueInv(r))'  BY DEF StarterInv, QueueInv, WorkerInv
<1>6. (\A w \in Workers : WorkerInv(w))'  BY DEF OneHolder, Cascade, StarterInv, QueueInv, WorkerInv
<1>7. JobFollowsRun'  BY DEF JobFollowsRun, StarterInv, QueueInv, WorkerInv
<1>8. FinishedIsSettled'  BY DEF FinishedIsSettled, StarterInv, WorkerInv
<1>9. NoRunLeftBehind'  BY DEF NoRunLeftBehind, Unattended, StarterInv
<1> QED BY <1>1, <1>2, <1>3, <1>4, <1>5, <1>6, <1>7, <1>8, <1>9

\* DeleteRun preserves the inductive invariant.
LEMMA DeleteRunInv ==
  ASSUME IInv, NEW r0 \in Runs, DeleteRun(r0)
  PROVE  IInv'
<1> USE RunsAssumption, BoundsAssumption
        DEF IInv, TypeOK, Final, StarterSteps, WorkerSteps, Row,
            DeleteRun, DeletesKeep
<1>1. TypeOK'  BY DEF StarterInv, WorkerInv
<1>2. OneHolder'  BY DEF OneHolder, QueueInv
<1>3. Cascade'  BY DEF Cascade, StarterInv
<1>4. (\A r \in Runs : StarterInv(r))'  BY DEF StarterInv, QueueInv, WorkerInv
<1>5. (\A r \in Runs : QueueInv(r))'  BY DEF StarterInv, QueueInv, WorkerInv
<1>6. (\A w \in Workers : WorkerInv(w))'  BY DEF OneHolder, Cascade, StarterInv, QueueInv, WorkerInv
<1>7. JobFollowsRun'  BY DEF JobFollowsRun, StarterInv, QueueInv, WorkerInv
<1>8. FinishedIsSettled'  BY DEF FinishedIsSettled, StarterInv, WorkerInv
<1>9. NoRunLeftBehind'  BY DEF NoRunLeftBehind, Unattended, StarterInv
<1> QED BY <1>1, <1>2, <1>3, <1>4, <1>5, <1>6, <1>7, <1>8, <1>9

\* DeleteJob preserves the inductive invariant.
LEMMA DeleteJobInv ==
  ASSUME IInv, NEW r0 \in Runs, DeleteJob(r0)
  PROVE  IInv'
<1> USE RunsAssumption, BoundsAssumption
        DEF IInv, TypeOK, Final, StarterSteps, WorkerSteps, Row,
            DeleteJob, DeletesKeep
<1>1. TypeOK'  BY DEF StarterInv, WorkerInv
<1>2. OneHolder'  BY DEF OneHolder, QueueInv
<1>3. Cascade'  BY DEF Cascade, StarterInv
<1>4. (\A r \in Runs : StarterInv(r))'  BY DEF StarterInv, QueueInv, WorkerInv
<1>5. (\A r \in Runs : QueueInv(r))'  BY DEF StarterInv, QueueInv, WorkerInv
<1>6. (\A w \in Workers : WorkerInv(w))'  BY DEF OneHolder, Cascade, StarterInv, QueueInv, WorkerInv
<1>7. JobFollowsRun'  BY DEF JobFollowsRun, StarterInv, QueueInv, WorkerInv
<1>8. FinishedIsSettled'  BY DEF FinishedIsSettled, StarterInv, WorkerInv
<1>9. NoRunLeftBehind'  BY DEF NoRunLeftBehind, Unattended, StarterInv
<1> QED BY <1>1, <1>2, <1>3, <1>4, <1>5, <1>6, <1>7, <1>8, <1>9


\* The initial state satisfies it.
LEMMA IInvInit == Init => IInv
BY RunsAssumption, BoundsAssumption
   DEF Init, IInv, TypeOK, Final, StarterSteps, WorkerSteps, Row, Idle, OneHolder, Cascade,
       StarterInv, QueueInv, WorkerInv, JobFollowsRun, FinishedIsSettled, NoRunLeftBehind,
       Unattended

\* Every step of Next preserves it.
LEMMA IInvNext == IInv /\ [Next]_vars => IInv'
<1> SUFFICES ASSUME IInv, [Next]_vars PROVE IInv'  OBVIOUS
<1>1. ASSUME NEW r \in Runs, StarterNext(r) PROVE IInv'
  BY <1>1, CreateJobInv, StampLastRunInv, MarkQueuedInv, PublishInv, StarterStopsInv
     DEF StarterNext
<1>2. ASSUME NEW r \in Runs, DeleteRun(r) \/ DeleteJob(r) PROVE IInv'
  BY <1>2, DeleteRunInv, DeleteJobInv
<1>3. ASSUME NEW w \in Workers, Task(w) PROVE IInv'
  BY <1>3, MarkRunningInv, ExecuteInv, SaveRunOkInv, SaveJobOkInv, SaveRunFailedInv,
     SaveJobFailedInv, SaveFinishedAtInv DEF Task
<1>4. ASSUME NEW w \in Workers, WorkerDies(w) \/ \E r \in Runs : Take(w, r) PROVE IInv'
  BY <1>4, WorkerDiesInv, TakeInv
<1>5. CASE CleanupRuns \/ CleanupJobs \/ CleanupDies
  BY <1>5, CleanupRunsInv, CleanupJobsInv, CleanupDiesInv
<1>6. CASE UNCHANGED vars
  BY <1>6 DEF vars, IInv, TypeOK, Row, OneHolder, Cascade, StarterInv, QueueInv, WorkerInv,
     JobFollowsRun, FinishedIsSettled, NoRunLeftBehind, Unattended
<1> QED BY <1>1, <1>2, <1>3, <1>4, <1>5, <1>6 DEF Next

\* Every reachable state satisfies the strengthened invariant.
THEOREM Invariance == Spec => []IInv
BY IInvInit, IInvNext, PTL DEF Spec

\* Type correctness.
THEOREM TypeCorrect == Spec => []TypeOK
<1>1. IInv => TypeOK  BY DEF IInv
<1> QED BY <1>1, Invariance, PTL

\* The job's verdict is always that of its run.
THEOREM JobNeverAnticipates == Spec => []JobFollowsRun
<1>1. IInv => JobFollowsRun  BY DEF IInv
<1> QED BY <1>1, Invariance, PTL

\* Without a failed save, finished_at means run and job have the verdict.
THEOREM FinishedMeansSettled == Spec => []FinishedIsSettled
<1>1. IInv => FinishedIsSettled  BY DEF IInv
<1> QED BY <1>1, Invariance, PTL

\* Without a crash or a failed save, a run nobody works on is finished.
THEOREM NothingLeftBehind == Spec => []NoRunLeftBehind
<1>1. IInv => NoRunLeftBehind  BY DEF IInv
<1> QED BY <1>1, Invariance, PTL

\* A message in Redis is for a run still QUEUED that no worker holds.
THEOREM MessagesMeanQueued == Spec => []MessageMeansQueued
<1>1. IInv => MessageMeansQueued  BY DEF IInv, QueueInv, MessageMeansQueued, TypeOK
<1> QED BY <1>1, Invariance, PTL

\* Every step of the spine is a step of the contract or changes neither row.
LEMMA StepsImplementContract == IInv /\ [Next]_vars => [Contract!Next]_(Contract!rows)
<1> SUFFICES ASSUME IInv, [Next]_vars PROVE Contract!Next \/ UNCHANGED <<run, job>>
  BY DEF Contract!rows
<1> USE RunsAssumption DEF IInv, TypeOK, Final, Row
<1>1. ASSUME NEW r \in Runs, StarterNext(r) PROVE Contract!Next \/ UNCHANGED <<run, job>>
  <2>1. CASE CreateJob(r)
    <3>1. Contract!Open(r)  BY <2>1 DEF CreateJob, Starts, StarterInv, Contract!Open
    <3> QED BY <3>1 DEF Contract!Next
  <2>2. CASE MarkQueued(r)
    <3>1. Contract!MoveRun(r, "pending", "queued")
      BY <2>2 DEF MarkQueued, Starts, StarterInv, Contract!MoveRun
    <3> QED BY <3>1 DEF Contract!Next
  <2>3. CASE StampLastRun(r) \/ Publish(r) \/ StarterStops(r)
    BY <2>3 DEF StampLastRun, Publish, StarterStops
  <2> QED BY <1>1, <2>1, <2>2, <2>3 DEF StarterNext
<1>2. ASSUME NEW r \in Runs, DeleteRun(r) \/ DeleteJob(r)
      PROVE  Contract!Next \/ UNCHANGED <<run, job>>
  <2>1. CASE DeleteRun(r)
    <3>1. Contract!DropRuns({r})
      BY <2>1 DEF DeleteRun, Contract!DropRuns, Contract!Drop
    <3> QED BY <3>1 DEF Contract!Next
  <2>2. CASE DeleteJob(r)
    <3>1. run[r] # "new"  BY <2>2 DEF DeleteJob, StarterInv
    <3>2. Contract!DropJobs({r})
      BY <2>2, <3>1 DEF DeleteJob, Contract!DropJobs, Contract!Drop
    <3> QED BY <3>2 DEF Contract!Next
  <2> QED BY <1>2, <2>1, <2>2
<1>3. ASSUME NEW w \in Workers, Task(w) PROVE Contract!Next \/ UNCHANGED <<run, job>>
  <2> DEFINE r == worker[w].on
  <2>1. worker[w].at # "idle" => r \in Runs  BY DEF WorkerInv
  <2> USE <2>1 DEF Saves, WritesRun, WritesJob, WorkerInv
  <2>2. CASE MarkRunning(w)
    <3>1. Contract!MoveRun(r, "queued", "running") \/ UNCHANGED <<run, job>>
      BY <2>2 DEF MarkRunning, Contract!MoveRun
    <3> QED BY <2>1, <2>2, <3>1 DEF MarkRunning, Contract!Next
  <2>3. CASE Execute(w)  BY <2>3 DEF Execute
  <2>4. CASE SaveRunOk(w)
    <3>1. Contract!MoveRun(r, "running", "success") \/ UNCHANGED <<run, job>>
      BY <2>4 DEF SaveRunOk, Contract!MoveRun
    <3> QED BY <2>1, <2>4, <3>1 DEF SaveRunOk, Contract!Next, Contract!Final
  <2>5. CASE SaveRunFailed(w)
    <3>1. \/ Contract!MoveRun(r, "running", "failed")
          \/ Contract!Revise(r)
          \/ UNCHANGED <<run, job>>
      BY <2>5 DEF SaveRunFailed, Contract!MoveRun, Contract!Revise, Cascade
    <3> QED BY <2>1, <2>5, <3>1 DEF SaveRunFailed, Contract!Next, Contract!Final
  <2>6. CASE SaveJobOk(w) \/ SaveJobFailed(w)
    <3>1. Contract!Settle(r) \/ UNCHANGED <<run, job>>
      BY <2>6 DEF SaveJobOk, SaveJobFailed, Contract!Settle, Contract!Final
    <3> QED BY <2>1, <2>6, <3>1 DEF SaveJobOk, SaveJobFailed, Contract!Next
  <2>7. CASE SaveFinishedAt(w)  BY <2>7 DEF SaveFinishedAt
  <2> QED BY <1>3, <2>2, <2>3, <2>4, <2>5, <2>6, <2>7 DEF Task
<1>4. ASSUME NEW w \in Workers, WorkerDies(w) \/ \E r \in Runs : Take(w, r)
      PROVE  UNCHANGED <<run, job>>
  BY <1>4 DEF WorkerDies, Take
<1>5. ASSUME CleanupRuns PROVE Contract!Next
  <2> PICK old \in SUBSET {r \in Reachability : Row(run, r)} : run' = Contract!Drop(run, old)
    BY <1>5 DEF CleanupRuns
  <2>1. Contract!DropRuns(old)  BY <1>5 DEF CleanupRuns, Contract!DropRuns
  <2> QED BY <2>1 DEF Contract!Next
<1>6. ASSUME CleanupJobs PROVE Contract!Next
  <2> DEFINE jobIds == {r \in cleaner.old : Row(run, r)}
  <2>1. jobIds \in SUBSET Runs  OBVIOUS
  <2>2. Contract!DropJobs(jobIds)  BY <1>6 DEF CleanupJobs, Contract!DropJobs
  <2> QED BY <2>1, <2>2 DEF Contract!Next
<1>7. ASSUME CleanupDies \/ UNCHANGED vars PROVE UNCHANGED <<run, job>>
  BY <1>7 DEF CleanupDies, vars
<1> QED BY <1>1, <1>2, <1>3, <1>4, <1>5, <1>6, <1>7 DEF Next

\* The spine implements the contract: statuses only move forward, the job is
\* settled once and with its run's verdict, deleted rows never come back.
THEOREM Implementation == Spec => ImplementsContract
<1>1. Init => Contract!Init  BY DEF Init, Contract!Init
<1> QED BY <1>1, Invariance, StepsImplementContract, PTL
   DEF Spec, Contract!Spec, ImplementsContract
=============================================================================

------------------------------ MODULE ModelRun ------------------------------
(***************************************************************************)
(* The life of a single training run: its row in model_runs, the job that  *)
(* trains it (ApiServer::RunPcaTraining), the request that submits it      *)
(* (HandleTrainModel without hpo_config), DELETE /train/:id, the           *)
(* JobReconciler, and crashes of the API server.                           *)
(*                                                                         *)
(* Every statement that DbClient sends is one step, so everything else can *)
(* happen between two of them.  DbClient swallows database errors: a write *)
(* may be lost and its caller goes on, a TryTransition then returns false. *)
(* MaxFaults bounds crashes, lost statements and short writes together.    *)
(*                                                                         *)
(* stale[r] abstracts the row's updated_at: "older than the reconciler's   *)
(* TTL".  The training itself is abstracted to whether it returns.         *)
(***************************************************************************)
EXTENDS Integers, FiniteSets

CONSTANTS
    Runs,           \* model_run_ids
    Deleters,       \* concurrent DELETE /train requests
    MaxJobs,        \* JobManager's limit
    MaxFaults,      \* bound on crashes, lost statements and short writes
    LiveRunsAge     \* may a run's updated_at pass the TTL while it is trained?

ASSUME ModelRunAssumption ==
    /\ MaxJobs \in Nat
    /\ MaxFaults \in Nat
    /\ LiveRunsAge \in BOOLEAN

VARIABLES
    status,         \* model_runs.status, "NONE" when there is no row
    artifact_path,  \* whether model_runs.artifact_path is set
    selection,      \* is_eligible and selection_metric_value: "default" (true, null),
                    \* "eligible" (true, threshold) or "ineligible" (false, 0)
    stale,          \* updated_at is older than the TTL
    disk,           \* the artifact file: "none", "partial" (open), "complete" or "short"
    worker,         \* where the run's submission or training job is
    stop_flag,      \* the job's stop flag
    del,            \* DELETE request -> where it is, and for which run
    server,         \* "up", "down" or "boot" (before ReconcileStartup)
    faults

row == <<status, artifact_path, selection, stale>>
runVars == <<row, disk, worker, stop_flag, del, server, faults>>

Terminal == {"COMPLETED", "FAILED", "CANCELLED"}
NonTerminal == {"PENDING", "RUNNING"}

\* The worker states in which the job holds a JobManager slot.
Active == {"start", "recheck", "train", "cancel", "write", "writing", "report",
           "eligible", "fail", "ineligible"}
ActiveRuns == {r \in Runs : worker[r] \in Active}

NoRequest == [pc |-> "idle"]

RunTypeOK ==
    /\ status \in [Runs -> Terminal \cup NonTerminal \cup {"NONE"}]
    /\ artifact_path \in [Runs -> BOOLEAN]
    /\ selection \in [Runs -> {"default", "eligible", "ineligible"}]
    /\ stale \in [Runs -> BOOLEAN]
    /\ disk \in [Runs -> {"none", "partial", "complete", "short"}]
    /\ worker \in [Runs -> Active \cup {"none", "submitted", "rejected", "done"}]
    /\ stop_flag \in [Runs -> BOOLEAN]
    /\ del \in [Deleters -> {NoRequest} \cup [pc : {"cancel", "write"}, run : Runs]]
    /\ server \in {"up", "down", "boot"}
    /\ faults \in 0..MaxFaults

RunInit ==
    /\ status = [r \in Runs |-> "NONE"]
    /\ artifact_path = [r \in Runs |-> FALSE]
    /\ selection = [r \in Runs |-> "default"]
    /\ stale = [r \in Runs |-> FALSE]
    /\ disk = [r \in Runs |-> "none"]
    /\ worker = [r \in Runs |-> "none"]
    /\ stop_flag = [r \in Runs |-> FALSE]
    /\ del = [d \in Deleters |-> NoRequest]
    /\ server = "up"
    /\ faults = 0

-----------------------------------------------------------------------------
(* DbClient *)

\* A statement takes effect, or it fails and DbClient only logs it.
Executed == UNCHANGED faults
Lost == faults < MaxFaults /\ faults' = faults + 1

\* UPDATE model_runs SET status = s, updated_at = NOW() WHERE model_run_id = r,
\* whatever the status was; COMPLETED also sets artifact_path.
UpdateModelRunStatus(r, s) ==
    \/ /\ Executed
       /\ status' = [status EXCEPT ![r] = s]
       /\ artifact_path' = IF s = "COMPLETED" THEN [artifact_path EXCEPT ![r] = TRUE]
                           ELSE artifact_path
       /\ stale' = [stale EXCEPT ![r] = FALSE]
       /\ UNCHANGED selection
    \/ Lost /\ UNCHANGED row

\* Leaves status and updated_at alone.
UpdateTrialEligibility(r, b) ==
    \/ /\ Executed
       /\ selection' = [selection EXCEPT ![r] = b]
       /\ UNCHANGED <<status, artifact_path, stale>>
    \/ Lost /\ UNCHANGED row

\* Faulty variant: only RUNNING rows are reconciled.
ReconcileRunningOnly(S) ==
    LET hit == {r \in S : status[r] = "RUNNING"}
    IN  /\ Executed
        /\ status' = [r \in Runs |-> IF r \in hit THEN "FAILED" ELSE status[r]]
        /\ stale' = [r \in Runs |-> stale[r] /\ r \notin hit]
        /\ UNCHANGED <<artifact_path, selection>>

\* Faulty variant: the condition on status is missing.
ReconcileAnyStatus(S) ==
    LET hit == {r \in S : status[r] # "NONE"}
    IN  /\ Executed
        /\ status' = [r \in Runs |-> IF r \in hit THEN "FAILED" ELSE status[r]]
        /\ stale' = [r \in Runs |-> stale[r] /\ r \notin hit]
        /\ UNCHANGED <<artifact_path, selection>>

\* UPDATE ... SET status = 'FAILED', updated_at = NOW() for every row of S that
\* is RUNNING or PENDING, in one transaction.
ReconcileStaleJobs(S) ==
    LET hit == {r \in S : status[r] \in NonTerminal}
    IN  \/ /\ Executed
           /\ status' = [r \in Runs |-> IF r \in hit THEN "FAILED" ELSE status[r]]
           /\ stale' = [r \in Runs |-> stale[r] /\ r \notin hit]
           /\ UNCHANGED <<artifact_path, selection>>
        \/ Lost /\ UNCHANGED row

-----------------------------------------------------------------------------
(* POST /train: HandleTrainModel, then StartJob *)

Goto(r, w) == worker' = [worker EXCEPT ![r] = w]

\* CreateModelRun inserts the row as PENDING.
Submit(r) ==
    /\ server = "up"
    /\ status[r] = "NONE"
    /\ status' = [status EXCEPT ![r] = "PENDING"]
    /\ Goto(r, "submitted")
    /\ UNCHANGED <<artifact_path, selection, stale, disk, stop_flag, del,
                   server, faults>>

StartJobAccepted(r) ==
    /\ worker[r] = "submitted"
    /\ Cardinality(ActiveRuns) < MaxJobs
    /\ Goto(r, "start")
    /\ stop_flag' = [stop_flag EXCEPT ![r] = FALSE]
    /\ UNCHANGED <<row, disk, del, server, faults>>

\* "Job queue full": the request is answered with 503, the row stays.
StartJobRejected(r) ==
    /\ worker[r] = "submitted"
    /\ Cardinality(ActiveRuns) >= MaxJobs
    /\ Goto(r, "rejected")
    /\ UNCHANGED <<row, disk, stop_flag, del, server, faults>>

-----------------------------------------------------------------------------
(* RunPcaTraining, on the job's thread *)

\* Faulty variant: RUNNING is written whatever the status is.
ClaimUnguarded(r) ==
    /\ worker[r] = "start"
    /\ UpdateModelRunStatus(r, "RUNNING")
    /\ Goto(r, "train")
    /\ UNCHANGED <<disk, stop_flag, del, server>>

\* TryTransitionModelRunStatus(PENDING, RUNNING), which does not touch updated_at.
Claim(r) ==
    /\ worker[r] = "start"
    /\ \/ /\ Executed
          /\ status[r] = "PENDING"
          /\ status' = [status EXCEPT ![r] = "RUNNING"]
          /\ Goto(r, "train")
          /\ UNCHANGED <<artifact_path, selection, stale>>
       \/ /\ (Executed /\ status[r] # "PENDING") \/ Lost
          /\ Goto(r, "recheck")
          /\ UNCHANGED row
    /\ UNCHANGED <<disk, stop_flag, del, server>>

\* The transition returned false: read the row; go on only if it is RUNNING.  A
\* failed read yields a null json, whose value() throws out of the job.
Recheck(r) ==
    /\ worker[r] = "recheck"
    /\ \/ Executed /\ Goto(r, IF status[r] = "RUNNING" THEN "train" ELSE "done")
       \/ Lost /\ Goto(r, "done")
    /\ UNCHANGED <<row, disk, stop_flag, del, server>>

\* Every tenth batch.
Heartbeat(r) ==
    /\ worker[r] = "train"
    /\ stale' = [stale EXCEPT ![r] = FALSE]
    /\ UNCHANGED <<status, artifact_path, selection, disk, worker, stop_flag,
                   del, server, faults>>

\* Faulty variant: COMPLETED is reported before the artifact is written.
TrainReturnsReportsFirst(r) ==
    /\ worker[r] = "train"
    /\ Goto(r, IF stop_flag[r] THEN "cancel" ELSE "report")
    /\ UNCHANGED <<row, disk, stop_flag, del, server, faults>>

\* Faulty variant: a cancelled job just returns.
TrainReturnsSilently(r) ==
    /\ worker[r] = "train"
    /\ Goto(r, IF stop_flag[r] THEN "done" ELSE "write")
    /\ UNCHANGED <<row, disk, stop_flag, del, server, faults>>

\* TrainPcaFromDb returns; the stop flag is looked at once, here.
TrainReturns(r) ==
    /\ worker[r] = "train"
    /\ Goto(r, IF stop_flag[r] THEN "cancel" ELSE "write")
    /\ UNCHANGED <<row, disk, stop_flag, del, server, faults>>

\* Creating the directory, training or writing the artifact throws.
TrainThrows(r) ==
    /\ worker[r] \in {"train", "write", "writing"}
    /\ Goto(r, "fail")
    /\ UNCHANGED <<row, disk, stop_flag, del, server, faults>>

ReportCancelled(r) ==
    /\ worker[r] = "cancel"
    /\ UpdateModelRunStatus(r, "CANCELLED")
    /\ Goto(r, "done")
    /\ UNCHANGED <<disk, stop_flag, del, server>>

\* WriteArtifactJson opens (and truncates) the file, then fills it.  The state of
\* the stream is not looked at afterwards, so a short write goes unnoticed.
OpenArtifact(r) ==
    /\ worker[r] = "write"
    /\ disk' = [disk EXCEPT ![r] = "partial"]
    /\ Goto(r, "writing")
    /\ UNCHANGED <<row, stop_flag, del, server, faults>>

WriteArtifact(r) ==
    /\ worker[r] = "writing"
    /\ \/ Executed /\ disk' = [disk EXCEPT ![r] = "complete"]
       \/ Lost /\ disk' = [disk EXCEPT ![r] = "short"]
    /\ Goto(r, "report")
    /\ UNCHANGED <<row, stop_flag, del, server>>

ReportCompleted(r) ==
    /\ worker[r] = "report"
    /\ UpdateModelRunStatus(r, "COMPLETED")
    /\ Goto(r, "eligible")
    /\ UNCHANGED <<disk, stop_flag, del, server>>

ReportEligible(r) ==
    /\ worker[r] = "eligible"
    /\ UpdateTrialEligibility(r, "eligible")
    /\ Goto(r, "done")
    /\ UNCHANGED <<disk, stop_flag, del, server>>

\* The catch block.
ReportFailed(r) ==
    /\ worker[r] = "fail"
    /\ UpdateModelRunStatus(r, "FAILED")
    /\ Goto(r, "ineligible")
    /\ UNCHANGED <<disk, stop_flag, del, server>>

ReportIneligible(r) ==
    /\ worker[r] = "ineligible"
    /\ UpdateTrialEligibility(r, "ineligible")
    /\ Goto(r, "done")
    /\ UNCHANGED <<disk, stop_flag, del, server>>

-----------------------------------------------------------------------------
(* DELETE /train/:id *)

\* GetModelRun finds a run that is not terminal (404 and 400 change nothing).
DeleteRead(d, r) ==
    /\ server = "up"
    /\ del[d] = NoRequest
    /\ status[r] \in NonTerminal
    /\ del' = [del EXCEPT ![d] = [pc |-> "cancel", run |-> r]]
    /\ UNCHANGED <<row, disk, worker, stop_flag, server, faults>>

\* CancelJob("train-" + id) raises the flag of a job that has been started.
DeleteCancelJob(d) ==
    /\ del[d].pc = "cancel"
    /\ stop_flag' = [stop_flag EXCEPT ![del[d].run] = @ \/ worker[del[d].run] \in Active]
    /\ del' = [del EXCEPT ![d].pc = "write"]
    /\ UNCHANGED <<row, disk, worker, server, faults>>

DeleteWrite(d) ==
    /\ del[d].pc = "write"
    /\ UpdateModelRunStatus(del[d].run, "CANCELLED")
    /\ del' = [del EXCEPT ![d] = NoRequest]
    /\ UNCHANGED <<disk, worker, stop_flag, server>>

-----------------------------------------------------------------------------
(* JobReconciler, time and crashes *)

\* The row's updated_at passes the TTL.
Age(r) ==
    /\ status[r] \in NonTerminal
    /\ ~stale[r]
    /\ LiveRunsAge \/ worker[r] \notin Active \cup {"submitted"}
    /\ stale' = [stale EXCEPT ![r] = TRUE]
    /\ UNCHANGED <<status, artifact_path, selection, disk, worker, stop_flag,
                   del, server, faults>>

RunSweep ==
    /\ server = "up"
    /\ \E r \in Runs : stale[r] /\ status[r] \in NonTerminal
    /\ ReconcileStaleJobs({r \in Runs : stale[r]})
    /\ UNCHANGED <<disk, worker, stop_flag, del, server>>

\* The process dies with its jobs and requests; rows and files stay.
Crash ==
    /\ server # "down"
    /\ Lost
    /\ server' = "down"
    /\ worker' = [r \in Runs |-> IF worker[r] = "none" THEN "none" ELSE "done"]
    /\ stop_flag' = [r \in Runs |-> FALSE]
    /\ del' = [d \in Deleters |-> NoRequest]
    /\ UNCHANGED <<row, disk>>

Restart ==
    /\ server = "down"
    /\ server' = "boot"
    /\ UNCHANGED <<row, disk, worker, stop_flag, del, faults>>

\* Initialize() calls this before the server listens.
ReconcileStartup ==
    /\ server = "boot"
    /\ ReconcileStaleJobs(Runs)
    /\ server' = "up"
    /\ UNCHANGED <<disk, worker, stop_flag, del>>

-----------------------------------------------------------------------------

HandleTrainModel(r) == Submit(r) \/ StartJobAccepted(r) \/ StartJobRejected(r)

RunPcaTraining(r) ==
    \/ Claim(r)
    \/ Recheck(r)
    \/ TrainReturns(r)
    \/ TrainThrows(r)
    \/ ReportCancelled(r)
    \/ OpenArtifact(r)
    \/ WriteArtifact(r)
    \/ ReportCompleted(r)
    \/ ReportEligible(r)
    \/ ReportFailed(r)
    \/ ReportIneligible(r)

DeleteTrain(d) ==
    \/ \E r \in Runs : DeleteRead(d, r)
    \/ DeleteCancelJob(d)
    \/ DeleteWrite(d)

RunNext ==
    \/ \E r \in Runs : HandleTrainModel(r) \/ RunPcaTraining(r) \/ Heartbeat(r) \/ Age(r)
    \/ \E d \in Deleters : DeleteTrain(d)
    \/ RunSweep
    \/ Crash
    \/ Restart
    \/ ReconcileStartup

\* Threads are scheduled and training ends; time passes for a row that nobody
\* updates; the sweeper wakes up every minute.  Nothing restarts a dead server by
\* itself.
RunFairness ==
    /\ \A r \in Runs : /\ WF_runVars(StartJobAccepted(r) \/ StartJobRejected(r))
                       /\ WF_runVars(RunPcaTraining(r))
                       /\ WF_runVars(Age(r))
    /\ \A d \in Deleters : WF_runVars(DeleteCancelJob(d) \/ DeleteWrite(d))
    /\ WF_runVars(RunSweep)
    /\ WF_runVars(ReconcileStartup)

RunSpec == RunInit /\ [][RunNext]_runVars
RunFairSpec == RunSpec /\ RunFairness

-----------------------------------------------------------------------------
(* Properties *)

\* A run that is shown as COMPLETED has its path in the row and its artifact file
\* written and closed, across crashes, lost writes and concurrent DELETEs; the same
\* holds for a run with a selection metric.  Without a fault the file is complete:
\* only a short write, which the code does not notice, is published.
CompletedHasArtifact ==
    \A r \in Runs :
        /\ status[r] = "COMPLETED" => artifact_path[r]
        /\ artifact_path[r] \/ selection[r] = "eligible" =>
              disk[r] = "complete" \/ (disk[r] = "short" /\ faults > 0)

\* As long as no statement is lost and nothing crashes, every way out of
\* RunPcaTraining leaves a terminal row: no run is PENDING or RUNNING after its
\* job has ended, whoever cancels or sweeps it meanwhile.
EndedJobLeavesTerminalRow ==
    faults = 0 => \A r \in Runs : worker[r] = "done" => status[r] \in Terminal

\* A status that is terminal is overwritten only in two races: by a DELETE that read
\* the row before it became terminal, or by the run's own job, which reports its end
\* after somebody else has.  The reconciler, crashes and restarts never do.
TerminalOverwrittenByRace ==
    [][\A r \in Runs : status[r] \in Terminal /\ status'[r] # status[r] =>
          \/ \E d \in Deleters : del[d] = [pc |-> "write", run |-> r] /\ del'[d] = NoRequest
          \/ worker[r] \in {"cancel", "report", "fail"} /\ worker'[r] # worker[r]]_runVars

\* Every run that is submitted gets a terminal status in the end: rows orphaned by
\* a full job queue, a lost write or a crash are picked up by the reconciler, unless
\* the server stays down for ever.
EveryRunEnds ==
    []<>(server # "down") =>
        \A r \in Runs : status[r] \in NonTerminal ~> status[r] \in Terminal

StateMachine == INSTANCE JobStateMachine WITH state <- status

\* The status column moves only as JobStateMachine allows; in particular a
\* terminal status is final ("no further transitions allowed").
FollowsStateMachine == StateMachine!Spec

\* It does so up to the first terminal status, and stays terminal from then on: a
\* job that starts late does not revive a run that was cancelled or swept.
FollowsUntilTerminal == StateMachine!UntilTerminal
=============================================================================

------------------------------- MODULE Tuning -------------------------------
(***************************************************************************)
(* A hyperparameter tuning run: the parent row in model_runs, the job that *)
(* creates one row per trial and starts the trials a few at a time         *)
(* (ApiServer::OrchestrateTuning), the trials themselves (RunPcaTraining,  *)
(* see ModelRun for its artifact), DELETE /train of the parent or of a     *)
(* trial, the reconciler, shutdown and crashes.                            *)
(*                                                                         *)
(* Run 0 is the parent, run i the trial with trial_index i - 1.  A         *)
(* statement that DbClient sends is one step and may fail: writes are then *)
(* lost, reads yield a null json, CreateHpoTrialRun throws.  Which other   *)
(* jobs hold the slots of the JobManager is left open, so any StartJob may *)
(* be refused.                                                             *)
(***************************************************************************)
EXTENDS Integers, FiniteSets, HpoConfig

CONSTANTS
    Hpo,            \* the hpo_config of the request
    MaxFaults       \* bound on crashes, refused starts and failing statements

ASSUME TuningAssumption ==
    /\ Hpo.n_components \in Seq(Int) /\ Hpo.percentile \in Seq(Int)
    /\ ValidateHpoConfig(Hpo) = {}
    /\ MaxFaults \in Nat

VARIABLES
    status,     \* run -> model_runs.status, "NONE" when there is no row
    eligible,   \* trial -> is_eligible, TRUE by default
    metric,     \* trial -> selection_metric_value: "null", "zero", "threshold"
    orch,       \* the orchestrator: pc, next_trial, active_trials, to poll
    trial,      \* trial -> where its job is
    stop_flag,  \* run -> stop flag of its job ("tuning-" + id or "train-" + id)
    del,        \* the DELETE request: pc, trials it saw, trials to cancel
    server,     \* "up", "stopping", "down" or "boot" (before ReconcileStartup)
    faults

row == <<status, eligible, metric>>
vars == <<row, orch, trial, stop_flag, del, server, faults>>

Trials == 1..Len(GenerateTrials(Hpo, [i \in 1..Hpo.max_trials |-> <<1, 1>>]))
Runs == {0} \cup Trials
Active == {"PENDING", "RUNNING"}
Terminal == {"COMPLETED", "FAILED", "CANCELLED"}
MaxConcurrency == Clamp(Hpo.max_concurrency, 1, 10)

OrchLive == {"claim", "recheck", "create", "loop", "start", "poll", "cancel"}
TrialLive == {"claim", "recheck", "train", "cancel", "report", "eligible", "fail",
              "ineligible"}
LiveRuns == {t \in Trials : trial[t] \in TrialLive}
            \cup (IF orch.pc \in OrchLive THEN {0} ELSE {})

NoOrch == [pc |-> "none", next |-> 1, active |-> {}, poll |-> {}]
NoDelete == [pc |-> "idle", run |-> 0, seen |-> {}, todo |-> {}]

TypeOK ==
    /\ status \in [Runs -> Active \cup Terminal \cup {"NONE"}]
    /\ eligible \in [Trials -> BOOLEAN]
    /\ metric \in [Trials -> {"null", "zero", "threshold"}]
    /\ orch \in [pc : OrchLive \cup {"none", "submitted", "done"},
                 next : 1..(Cardinality(Trials) + 1),
                 active : SUBSET Trials, poll : SUBSET Trials]
    /\ trial \in [Trials -> TrialLive \cup {"none", "done"}]
    /\ stop_flag \in [Runs -> BOOLEAN]
    /\ del \in [pc : {"idle", "list", "cancel", "status", "eligible", "stop", "write", "answered"},
                run : Runs, seen : SUBSET Trials, todo : SUBSET Trials]
    /\ server \in {"up", "stopping", "down", "boot"}
    /\ faults \in 0..MaxFaults

Init ==
    /\ status = [r \in Runs |-> "NONE"]
    /\ eligible = [t \in Trials |-> TRUE]
    /\ metric = [t \in Trials |-> "null"]
    /\ orch = NoOrch
    /\ trial = [t \in Trials |-> "none"]
    /\ stop_flag = [r \in Runs |-> FALSE]
    /\ del = NoDelete
    /\ server = "up"
    /\ faults = 0

-----------------------------------------------------------------------------
(* DbClient *)

Executed == UNCHANGED faults
Failed == faults < MaxFaults /\ faults' = faults + 1

SetStatus(r, s) ==
    /\ status' = [status EXCEPT ![r] = s]
    /\ UNCHANGED <<eligible, metric>>

UpdateModelRunStatus(r, s) ==
    \/ Executed /\ SetStatus(r, s)
    \/ Failed /\ UNCHANGED row

UpdateTrialEligibility(t, b, m) ==
    \/ /\ Executed
       /\ eligible' = [eligible EXCEPT ![t] = b]
       /\ metric' = [metric EXCEPT ![t] = m]
       /\ UNCHANGED status
    \/ Failed /\ UNCHANGED row

\* Faulty variant: PENDING rows are left alone.
ReconcileRunningOnly(S) ==
    /\ Executed
    /\ status' = [r \in Runs |-> IF r \in S /\ status[r] = "RUNNING" THEN "FAILED" ELSE status[r]]
    /\ UNCHANGED <<eligible, metric>>

\* The rows of S that are PENDING or RUNNING become FAILED.
ReconcileStaleJobs(S) ==
    \/ /\ Executed
       /\ status' = [r \in Runs |-> IF r \in S /\ status[r] \in Active
                                    THEN "FAILED" ELSE status[r]]
       /\ UNCHANGED <<eligible, metric>>
    \/ Failed /\ UNCHANGED row

-----------------------------------------------------------------------------
(* POST /train with an hpo_config: CreateModelRun, then StartJob *)

Submit ==
    /\ server = "up"
    /\ status[0] = "NONE"
    /\ SetStatus(0, "PENDING")
    /\ orch' = [orch EXCEPT !.pc = "submitted"]
    /\ UNCHANGED <<trial, stop_flag, del, server, faults>>

StartOrchestrator ==
    /\ orch.pc = "submitted"
    /\ \/ Executed /\ orch' = [orch EXCEPT !.pc = "claim"]
       \/ Failed /\ orch' = [NoOrch EXCEPT !.pc = "done"]
    /\ UNCHANGED <<row, trial, stop_flag, del, server>>

-----------------------------------------------------------------------------
(* OrchestrateTuning, on the job's thread *)

Goto(p) == orch' = [orch EXCEPT !.pc = p]
Return == orch' = [NoOrch EXCEPT !.pc = "done"]

ClaimParent ==
    /\ orch.pc = "claim"
    /\ \/ Executed /\ status[0] = "PENDING" /\ SetStatus(0, "RUNNING") /\ Goto("create")
       \/ /\ (Executed /\ status[0] # "PENDING") \/ Failed
          /\ Goto("recheck")
          /\ UNCHANGED row
    /\ UNCHANGED <<trial, stop_flag, del, server>>

RecheckParent ==
    /\ orch.pc = "recheck"
    /\ \/ Executed /\ IF status[0] = "RUNNING" THEN Goto("create") ELSE Return
       \/ Failed /\ Return
    /\ UNCHANGED <<row, trial, stop_flag, del, server>>

\* All rows are inserted before the first trial starts; an insertion that fails
\* throws out of the job.
CreateTrial ==
    /\ orch.pc = "create"
    /\ LET t == Min({i \in Trials : status[i] = "NONE"})
       IN  \/ Executed /\ SetStatus(t, "PENDING") /\ Goto(IF t + 1 \in Trials THEN "create" ELSE "loop")
           \/ Failed /\ Return /\ UNCHANGED row
    /\ UNCHANGED <<trial, stop_flag, del, server>>

\* The head of the loop.
LoopHead ==
    /\ orch.pc = "loop"
    /\ IF orch.next \notin Trials /\ orch.active = {} THEN Return
       ELSE Goto(IF stop_flag[0] THEN "cancel" ELSE "start")
    /\ UNCHANGED <<row, trial, stop_flag, del, server, faults>>

OrchestratorCancelled ==
    /\ orch.pc = "cancel"
    /\ UpdateModelRunStatus(0, "CANCELLED")
    /\ Return
    /\ UNCHANGED <<trial, stop_flag, del, server>>

\* Faulty variant: off by one in the concurrency limit.
MayStartOneMore == orch.next \in Trials /\ Cardinality(orch.active) <= MaxConcurrency

MayStart == orch.next \in Trials /\ Cardinality(orch.active) < MaxConcurrency

\* RunPcaTraining starts "train-" + id; when the JobManager refuses, the exception
\* leaves the orchestrator.
StartTrial ==
    /\ orch.pc = "start"
    /\ MayStart
    /\ \/ /\ server = "up"
          /\ Executed
          /\ trial' = [trial EXCEPT ![orch.next] = "claim"]
          /\ orch' = [orch EXCEPT !.active = @ \cup {orch.next}, !.next = @ + 1]
       \/ (Failed \/ (server = "stopping" /\ Executed)) /\ Return /\ UNCHANGED trial
    /\ UNCHANGED <<row, stop_flag, del, server>>

\* Heartbeat of the parent, two seconds of sleep.
Wait ==
    /\ orch.pc = "start"
    /\ ~MayStart
    /\ orch' = [orch EXCEPT !.pc = "poll", !.poll = orch.active]
    /\ UNCHANGED <<row, trial, stop_flag, del, server, faults>>

\* Faulty variant: a trial is finished only when it is COMPLETED.
FinishedCompleted == {"COMPLETED"}

Finished == Terminal

\* GetModelRun of one active trial; without a row, run_info["status"] throws.
PollTrial ==
    /\ orch.pc = "poll"
    /\ \E t \in orch.poll :
          \/ /\ Executed
             /\ orch' = [orch EXCEPT !.poll = @ \ {t},
                                     !.active = IF status[t] \in Finished THEN @ \ {t} ELSE @,
                                     !.pc = IF orch.poll = {t} THEN "loop" ELSE @]
          \/ Failed /\ Return
    /\ UNCHANGED <<row, trial, stop_flag, del, server>>

OrchestrateTuning ==
    \/ StartOrchestrator
    \/ ClaimParent
    \/ RecheckParent
    \/ CreateTrial
    \/ LoopHead
    \/ OrchestratorCancelled
    \/ StartTrial
    \/ Wait
    \/ PollTrial

-----------------------------------------------------------------------------
(* RunPcaTraining of a trial *)

Step(t, p, q) == trial[t] = p /\ trial' = [trial EXCEPT ![t] = q]

\* Faulty variant: RUNNING is written whatever the status is.
ClaimTrialUnguarded(t) ==
    /\ Step(t, "claim", "train")
    /\ UpdateModelRunStatus(t, "RUNNING")

ClaimTrial(t) ==
    \/ /\ Executed
       /\ status[t] = "PENDING"
       /\ SetStatus(t, "RUNNING")
       /\ Step(t, "claim", "train")
    \/ /\ (Executed /\ status[t] # "PENDING") \/ Failed
       /\ Step(t, "claim", "recheck")
       /\ UNCHANGED row

RecheckTrial(t) ==
    /\ \/ Executed /\ Step(t, "recheck", IF status[t] = "RUNNING" THEN "train" ELSE "done")
       \/ Failed /\ Step(t, "recheck", "done")
    /\ UNCHANGED row

\* Training returns, and the stop flag is looked at, or it throws.
TrainTrial(t) ==
    /\ \/ Step(t, "train", IF stop_flag[t] THEN "cancel" ELSE "report")
       \/ Step(t, "train", "fail")
    /\ UNCHANGED <<row, faults>>

\* Faulty variant: the eligibility update is forgotten.
ReportTrialOnly(t) ==
    \/ Step(t, "cancel", "done") /\ UpdateModelRunStatus(t, "CANCELLED")
    \/ Step(t, "report", "done") /\ UpdateModelRunStatus(t, "COMPLETED")
    \/ Step(t, "fail", "ineligible") /\ UpdateModelRunStatus(t, "FAILED")
    \/ Step(t, "ineligible", "done") /\ UpdateTrialEligibility(t, FALSE, "zero")

ReportTrial(t) ==
    \/ Step(t, "cancel", "done") /\ UpdateModelRunStatus(t, "CANCELLED")
    \/ Step(t, "report", "eligible") /\ UpdateModelRunStatus(t, "COMPLETED")
    \/ Step(t, "eligible", "done") /\ UpdateTrialEligibility(t, TRUE, "threshold")
    \/ Step(t, "fail", "ineligible") /\ UpdateModelRunStatus(t, "FAILED")
    \/ Step(t, "ineligible", "done") /\ UpdateTrialEligibility(t, FALSE, "zero")

RunPcaTraining(t) ==
    /\ ClaimTrial(t) \/ RecheckTrial(t) \/ TrainTrial(t) \/ ReportTrial(t)
    /\ UNCHANGED <<orch, stop_flag, del, server>>

-----------------------------------------------------------------------------
(* DELETE /train/:id of the parent or of one trial *)

\* GetModelRun: 404 and 400 (terminal) change nothing.
DeleteRead ==
    /\ server = "up"
    /\ del.pc = "idle"
    /\ \E r \in Runs :
          /\ status[r] \in Active
          /\ del' = [del EXCEPT !.pc = IF r = 0 THEN "list" ELSE "stop", !.run = r]
    /\ UNCHANGED <<row, orch, trial, stop_flag, server, faults>>

\* GetHpoTrials of a parent: the trials created so far that are PENDING or RUNNING;
\* a failed query yields an empty list.
DeleteList ==
    /\ del.pc = "list"
    /\ \/ /\ Executed
          /\ LET S == {t \in Trials : status[t] \in Active}
             IN  del' = [del EXCEPT !.pc = IF S = {} THEN "stop" ELSE "cancel",
                                    !.seen = S, !.todo = S]
       \/ Failed /\ del' = [del EXCEPT !.pc = "stop"]
    /\ UNCHANGED <<row, orch, trial, stop_flag, server>>

NextToCancel == Min(del.todo)

\* CancelJob("train-" + tid), then the trial's status, then its eligibility.
DeleteTrialCancel ==
    /\ del.pc = "cancel"
    /\ stop_flag' = [stop_flag EXCEPT ![NextToCancel] = @ \/ trial[NextToCancel] \in TrialLive]
    /\ del' = [del EXCEPT !.pc = "status"]
    /\ UNCHANGED <<row, orch, trial, server, faults>>

\* Faulty variant: only the jobs are cancelled, the rows of waiting trials stay.
DeleteTrialStatusFlagOnly ==
    /\ del.pc = "status"
    /\ del' = [del EXCEPT !.pc = "eligible"]
    /\ UNCHANGED <<row, orch, trial, stop_flag, server, faults>>

DeleteTrialStatus ==
    /\ del.pc = "status"
    /\ UpdateModelRunStatus(NextToCancel, "CANCELLED")
    /\ del' = [del EXCEPT !.pc = "eligible"]
    /\ UNCHANGED <<orch, trial, stop_flag, server>>

DeleteTrialEligibility ==
    /\ del.pc = "eligible"
    /\ UpdateTrialEligibility(NextToCancel, FALSE, "zero")
    /\ LET S == del.todo \ {NextToCancel}
       IN  del' = [del EXCEPT !.todo = S, !.pc = IF S = {} THEN "stop" ELSE "cancel"]
    /\ UNCHANGED <<orch, trial, stop_flag, server>>

\* CancelJob("train-" + id) of the run itself, which for a parent finds nothing: the
\* orchestrator runs as "tuning-" + id.
DeleteCancel ==
    /\ del.pc = "stop"
    /\ stop_flag' = [stop_flag EXCEPT ![del.run] = @ \/ del.run \in LiveRuns \ {0}]
    /\ del' = [del EXCEPT !.pc = "write"]
    /\ UNCHANGED <<row, orch, trial, server, faults>>

DeleteWrite ==
    /\ del.pc = "write"
    /\ UpdateModelRunStatus(del.run, "CANCELLED")
    /\ del' = [del EXCEPT !.pc = "answered"]
    /\ UNCHANGED <<orch, trial, stop_flag, server>>

DeleteTrain ==
    \/ DeleteRead
    \/ DeleteList
    \/ DeleteTrialCancel
    \/ DeleteTrialStatus
    \/ DeleteTrialEligibility
    \/ DeleteCancel
    \/ DeleteWrite

-----------------------------------------------------------------------------
(* The reconciler, shutdown and crashes *)

\* Rows whose updated_at is too old: waiting trials have no heartbeat, and a long
\* step of the training goes without one.
RunSweep(S) ==
    /\ server = "up"
    /\ \A r \in S : status[r] \in Active
    /\ ReconcileStaleJobs(S)
    /\ UNCHANGED <<orch, trial, stop_flag, del, server>>

\* The server has stopped listening, its requests are answered and the reconciler is
\* joined; JobManager::Stop raises every flag and lets no job start any more.
Shutdown ==
    /\ server = "up"
    /\ orch.pc # "submitted"
    /\ del.pc \in {"idle", "answered"}
    /\ server' = "stopping"
    /\ stop_flag' = [r \in Runs |-> r \in LiveRuns]
    /\ UNCHANGED <<row, orch, trial, del, faults>>

ProcessEnds ==
    /\ server' = "down"
    /\ orch' = IF orch.pc = "none" THEN orch ELSE [NoOrch EXCEPT !.pc = "done"]
    /\ trial' = [t \in Trials |-> IF trial[t] = "none" THEN "none" ELSE "done"]
    /\ stop_flag' = [r \in Runs |-> FALSE]
    /\ del' = IF del.pc = "idle" THEN del ELSE [NoDelete EXCEPT !.pc = "answered"]
    /\ UNCHANGED row

\* Stop has joined every job.
Exit == server = "stopping" /\ LiveRuns = {} /\ Executed /\ ProcessEnds

Crash == server # "down" /\ Failed /\ ProcessEnds

Restart ==
    /\ server = "down"
    /\ server' = "boot"
    /\ UNCHANGED <<row, orch, trial, stop_flag, del, faults>>

ReconcileStartup ==
    /\ server = "boot"
    /\ ReconcileStaleJobs(Runs)
    /\ server' = "up"
    /\ UNCHANGED <<orch, trial, stop_flag, del>>

Next ==
    \/ Submit
    \/ OrchestrateTuning
    \/ \E t \in Trials : RunPcaTraining(t)
    \/ DeleteTrain
    \/ \E S \in SUBSET Runs \ {{}} : RunSweep(S)
    \/ Shutdown
    \/ Exit
    \/ Crash
    \/ Restart
    \/ ReconcileStartup

\* Threads are scheduled and training ends; a row that no thread owns grows old and
\* is found by the sweeper.  Nothing restarts a server that is down.
Fairness ==
    /\ WF_vars(OrchestrateTuning)
    /\ \A t \in Trials : WF_vars(RunPcaTraining(t))
    /\ WF_vars(del.pc # "idle" /\ DeleteTrain)
    /\ \A r \in Runs : WF_vars(r \notin LiveRuns /\ RunSweep({r}))
    /\ WF_vars(Exit)
    /\ WF_vars(ReconcileStartup)

Spec == Init /\ [][Next]_vars
FairSpec == Spec /\ Fairness

-----------------------------------------------------------------------------
(* Properties *)

\* No more than max_concurrency trials are RUNNING at a time ("executed
\* concurrently according to the max_concurrency setting"), although the
\* orchestrator only learns of the end of a trial by polling rows that DELETE and
\* the reconciler write too.  (The threads may be more: a trial that is cancelled or
\* swept goes on training after its row is terminal.)
WithinMaxConcurrency ==
    Cardinality({t \in Trials : status[t] = "RUNNING"}) <= MaxConcurrency

\* Once no job is left, every trial that best-trial selection would pick has its
\* metric value, so that GET /models can answer: COMPLETED and the eligibility are
\* two statements, and is_eligible is TRUE by default.  (A crash or a lost statement
\* between the two leaves a trial that makes every later GET fail.)
SelectableHasMetric ==
    faults = 0 => \A t \in Trials :
        status[t] = "COMPLETED" /\ eligible[t] /\ trial[t] = "done" => metric[t] = "threshold"

\* Trials that DELETE of the parent saw do not start afterwards: a waiting trial
\* keeps its CANCELLED row, and its job gives up at the claim.  (Trials whose rows
\* the orchestrator inserts later are not stopped: DELETE does not reach it.)
CancelStopsKnownTrials ==
    [][\A t \in Trials :
          del.pc = "answered" /\ t \in del.seen /\ faults' = 0 =>
              ~(status[t] # "RUNNING" /\ status'[t] = "RUNNING")]_vars

\* Neither the parent nor a trial that has been cancelled, swept or reported becomes
\* PENDING or RUNNING again.
NeverBackToActive ==
    [][\A r \in Runs : status[r] \in Terminal => status'[r] \in Terminal]_vars

\* The orchestrator does not run for ever: a trial whose last status write was lost
\* stays RUNNING without a job, and the poll that waits for it is freed by the
\* reconciler.
OrchestratorReturns == []<>(orch.pc \notin OrchLive)

\* No row stays PENDING or RUNNING: the parent, which the orchestrator leaves
\* RUNNING when it has finished, trials left behind when a start is refused, and what
\* a shutdown or a crash leaves (unless the server stays down for ever).
EveryRowEnds ==
    []<>(server # "down") => []<>(\A r \in Runs : status[r] \notin Active)

\* The trials' rows respect max_concurrency and can be selected from.
TrialsInv == TypeOK /\ WithinMaxConcurrency /\ SelectableHasMetric

\* What has ended, or was seen by DELETE of the parent, is never RUNNING again.
TrialsStayEnded == NeverBackToActive /\ CancelStopsKnownTrials
=============================================================================

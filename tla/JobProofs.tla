----------------------------- MODULE JobProofs ------------------------------
(***************************************************************************)
(* Proofs about jobs:                                                      *)
(*  - ModelRun, the training runs and their rows, for any number of runs,  *)
(*    DELETE requests, job slots, crashes and lost statements;             *)
(*  - JobManager, for every set of job ids and threads, every limit,       *)
(*    any number of Stop callers, and a std::thread that may not start.    *)
(***************************************************************************)
EXTENDS JobManager, ModelRun, FiniteSetTheorems, TLAPS

-----------------------------------------------------------------------------
(* ModelRun *)

\* The artifact file has been written to the end, as far as the code can tell.
Closed(r) == disk[r] = "complete" \/ (disk[r] = "short" /\ faults > 0)

Created(r) == status[r] # "NONE"
Claimed(r) == status[r] \in Terminal \cup {"RUNNING"}

\* A row exists for everything that is at work on it, and a job that trains has
\* seen its row RUNNING.
RowInv ==
    /\ \A r \in Runs : worker[r] # "none" => Created(r)
    /\ \A d \in Deleters : del[d] # NoRequest => Created(del[d].run)
    /\ \A r \in Runs :
          worker[r] \in {"train", "cancel", "write", "writing", "report", "eligible",
                         "fail", "ineligible"} => Claimed(r)

\* Until the file is closed nothing is published; afterwards it is not reopened.
ArtifactInv ==
    \A r \in Runs :
        /\ worker[r] \in {"none", "submitted", "start", "recheck", "train", "cancel",
                          "write", "writing"}
           => ~artifact_path[r] /\ selection[r] # "eligible"
        /\ worker[r] \in {"report", "eligible"} => Closed(r)

\* While nothing has gone wrong, a lost claim means that somebody else moved the row,
\* and a job that has reported leaves a terminal row.
ReportInv ==
    faults = 0 => \A r \in Runs :
        /\ worker[r] = "recheck" => Claimed(r)
        /\ worker[r] \in {"eligible", "ineligible"} => status[r] \in Terminal

RunInv ==
    /\ RunTypeOK
    /\ RowInv
    /\ ArtifactInv
    /\ ReportInv
    /\ CompletedHasArtifact
    /\ EndedJobLeavesTerminalRow

-----------------------------------------------------------------------------
(* Preservation, one lemma per group of actions *)

\* The inductive invariant holds before anything is submitted.
LEMMA RunInitInv == RunInit => RunInv
BY ModelRunAssumption
DEF RunInit, RunInv, RunTypeOK, RowInv, ArtifactInv, ReportInv, CompletedHasArtifact,
    EndedJobLeavesTerminalRow, Active

\* The Boolean columns and flags keep their type in each statement that sets them.
LEMMA UpdateTypes ==
    ASSUME RunTypeOK, NEW r \in Runs, NEW s \in Terminal, UpdateModelRunStatus(r, s)
    PROVE  /\ status' \in [Runs -> Terminal \cup NonTerminal \cup {"NONE"}]
           /\ artifact_path' \in [Runs -> BOOLEAN]
           /\ selection' \in [Runs -> {"default", "eligible", "ineligible"}]
           /\ stale' \in [Runs -> BOOLEAN]
           /\ faults' \in 0..MaxFaults
<1>1. artifact_path' \in [Runs -> BOOLEAN] /\ stale' \in [Runs -> BOOLEAN]
    BY Zenon DEF RunTypeOK, UpdateModelRunStatus, row
<1>2. /\ status' \in [Runs -> Terminal \cup NonTerminal \cup {"NONE"}]
      /\ selection' \in [Runs -> {"default", "eligible", "ineligible"}]
    BY DEF RunTypeOK, UpdateModelRunStatus, row
<1>3. faults' \in 0..MaxFaults
    BY ModelRunAssumption DEF RunTypeOK, UpdateModelRunStatus, Executed, Lost
<1> QED BY <1>1, <1>2, <1>3

\* The reconciler only fails rows that are not terminal.
LEMMA Reconciled ==
    ASSUME RunTypeOK, NEW S, ReconcileStaleJobs(S)
    PROVE  /\ status' \in [Runs -> Terminal \cup NonTerminal \cup {"NONE"}]
           /\ stale' \in [Runs -> BOOLEAN]
           /\ artifact_path' = artifact_path /\ selection' = selection
           /\ faults' \in 0..MaxFaults /\ faults' >= faults
           /\ \A r \in Runs : \/ status'[r] = status[r]
                              \/ status[r] \in NonTerminal /\ status'[r] = "FAILED"
<1> DEFINE hit == {r \in S : status[r] \in NonTerminal}
<1>1. \/ /\ status' = [r \in Runs |-> IF r \in hit THEN "FAILED" ELSE status[r]]
         /\ stale' = [r \in Runs |-> stale[r] /\ r \notin hit]
      \/ UNCHANGED <<status, stale>>
    BY DEF ReconcileStaleJobs, row
<1>2. /\ artifact_path' = artifact_path /\ selection' = selection
      /\ Executed \/ Lost
    BY DEF ReconcileStaleJobs, row
<1>3. faults' \in 0..MaxFaults /\ faults' >= faults
    BY <1>2, ModelRunAssumption DEF RunTypeOK, Executed, Lost
<1>4. \A r \in hit : status[r] \in NonTerminal
    OBVIOUS
<1> HIDE DEF hit
<1>5. stale' \in [Runs -> BOOLEAN]
    BY <1>1, Zenon DEF RunTypeOK
<1>6. status' \in [Runs -> Terminal \cup NonTerminal \cup {"NONE"}]
    BY <1>1 DEF RunTypeOK, Terminal
<1>7. ASSUME NEW r \in Runs
      PROVE  \/ status'[r] = status[r]
             \/ status[r] \in NonTerminal /\ status'[r] = "FAILED"
  <2>1. \/ status'[r] = status[r]
        \/ status'[r] = IF r \in hit THEN "FAILED" ELSE status[r]
      BY <1>1, Zenon
  <2>2. CASE r \in hit
      BY <1>4, <2>1, <2>2, Zenon
  <2>3. CASE r \notin hit
      BY <2>1, <2>3, Zenon
  <2> QED BY <2>2, <2>3
<1> QED BY <1>2, <1>3, <1>5, <1>6, <1>7

LEMMA CancelTypes ==
    ASSUME RunTypeOK, NEW d \in Deleters, DeleteCancelJob(d)
    PROVE  stop_flag' \in [Runs -> BOOLEAN]
BY Zenon DEF RunTypeOK, DeleteCancelJob

\* POST /train preserves it.
LEMMA SubmitStep ==
    ASSUME RunInv, NEW r \in Runs, HandleTrainModel(r)
    PROVE  RunInv'
<1> USE DEF RunInv, Active, Terminal, NonTerminal, Goto, row, Closed, Created, Claimed
<1>1. CASE Submit(r)
  <2>1. RunTypeOK' BY <1>1 DEF Submit, RunTypeOK
  <2>2. RowInv' BY <1>1 DEF Submit, RunTypeOK, RowInv
  <2>3. ArtifactInv' BY <1>1 DEF Submit, RunTypeOK, RowInv, ArtifactInv
  <2>4. ReportInv' BY <1>1 DEF Submit, RunTypeOK, ReportInv
  <2>5. CompletedHasArtifact' BY <1>1 DEF Submit, RunTypeOK, CompletedHasArtifact
  <2>6. EndedJobLeavesTerminalRow' BY <1>1 DEF Submit, RunTypeOK, EndedJobLeavesTerminalRow
  <2> QED BY <2>1, <2>2, <2>3, <2>4, <2>5, <2>6
<1>2. CASE StartJobAccepted(r) \/ StartJobRejected(r)
  <2> USE DEF StartJobAccepted, StartJobRejected
  <2>1. RunTypeOK' BY <1>2, ZenonT(30) DEF RunTypeOK
  <2>2. RowInv' BY <1>2 DEF RunTypeOK, RowInv
  <2>3. ArtifactInv' BY <1>2 DEF RunTypeOK, ArtifactInv
  <2>4. ReportInv' BY <1>2 DEF RunTypeOK, ReportInv
  <2>5. CompletedHasArtifact' BY <1>2 DEF RunTypeOK, CompletedHasArtifact
  <2>6. EndedJobLeavesTerminalRow' BY <1>2 DEF RunTypeOK, EndedJobLeavesTerminalRow
  <2> QED BY <2>1, <2>2, <2>3, <2>4, <2>5, <2>6
<1> QED BY <1>1, <1>2 DEF HandleTrainModel

\* Claiming the run, and training it, preserves it.
LEMMA TrainStep ==
    ASSUME RunInv, NEW r \in Runs,
           \/ Claim(r) \/ Recheck(r) \/ Heartbeat(r) \/ TrainReturns(r) \/ TrainThrows(r)
           \/ OpenArtifact(r) \/ WriteArtifact(r)
    PROVE  RunInv'
<1> USE DEF RunInv, Active, Terminal, NonTerminal, Executed, Lost, Goto, row, Closed, Created,
            Claimed
<1> USE ModelRunAssumption
<1>1. CASE Claim(r)
  <2> USE <1>1 DEF Claim
  <2>1. RunTypeOK' BY DEF RunTypeOK
  <2>2. RowInv' BY DEF RunTypeOK, RowInv
  <2>3. ArtifactInv' BY DEF RunTypeOK, RowInv, ArtifactInv
  <2>4. ReportInv' BY DEF RunTypeOK, RowInv, ReportInv
  <2>5. CompletedHasArtifact' BY DEF RunTypeOK, ArtifactInv, CompletedHasArtifact
  <2>6. EndedJobLeavesTerminalRow' BY DEF RunTypeOK, RowInv, ReportInv, EndedJobLeavesTerminalRow
  <2> QED BY <2>1, <2>2, <2>3, <2>4, <2>5, <2>6
<1>2. CASE Recheck(r)
  <2> USE <1>2 DEF Recheck
  <2>1. RunTypeOK' BY DEF RunTypeOK
  <2>2. RowInv' BY DEF RunTypeOK, RowInv
  <2>3. ArtifactInv' BY DEF RunTypeOK, RowInv, ArtifactInv
  <2>4. ReportInv' BY DEF RunTypeOK, RowInv, ReportInv
  <2>5. CompletedHasArtifact' BY DEF RunTypeOK, ArtifactInv, CompletedHasArtifact
  <2>6. EndedJobLeavesTerminalRow' BY DEF RunTypeOK, RowInv, ReportInv, EndedJobLeavesTerminalRow
  <2> QED BY <2>1, <2>2, <2>3, <2>4, <2>5, <2>6
<1>3. CASE Heartbeat(r) \/ TrainReturns(r) \/ TrainThrows(r)
  <2> USE <1>3 DEF Heartbeat, TrainReturns, TrainThrows
  <2>1. RunTypeOK' BY ZenonT(30) DEF RunTypeOK
  <2>2. RowInv' BY DEF RunTypeOK, RowInv
  <2>3. ArtifactInv' BY DEF RunTypeOK, RowInv, ArtifactInv
  <2>4. ReportInv' BY DEF RunTypeOK, RowInv, ReportInv
  <2>5. CompletedHasArtifact' BY DEF RunTypeOK, ArtifactInv, CompletedHasArtifact
  <2>6. EndedJobLeavesTerminalRow' BY DEF RunTypeOK, RowInv, ReportInv, EndedJobLeavesTerminalRow
  <2> QED BY <2>1, <2>2, <2>3, <2>4, <2>5, <2>6
<1>4. CASE OpenArtifact(r) \/ WriteArtifact(r)
  <2> USE <1>4 DEF OpenArtifact, WriteArtifact
  <2>1. RunTypeOK' BY DEF RunTypeOK
  <2>2. RowInv' BY DEF RunTypeOK, RowInv
  <2>3. ArtifactInv' BY DEF RunTypeOK, RowInv, ArtifactInv
  <2>4. ReportInv' BY DEF RunTypeOK, RowInv, ReportInv
  <2>5. CompletedHasArtifact' BY DEF RunTypeOK, ArtifactInv, CompletedHasArtifact
  <2>6. EndedJobLeavesTerminalRow' BY DEF RunTypeOK, RowInv, ReportInv, EndedJobLeavesTerminalRow
  <2> QED BY <2>1, <2>2, <2>3, <2>4, <2>5, <2>6
<1> QED BY <1>1, <1>2, <1>3, <1>4

\* Reporting the end of a job preserves it.
LEMMA ReportStep ==
    ASSUME RunInv, NEW r \in Runs,
           \/ ReportCancelled(r) \/ ReportCompleted(r) \/ ReportFailed(r)
           \/ ReportEligible(r) \/ ReportIneligible(r)
    PROVE  RunInv'
<1> USE DEF RunInv, Active, Terminal, NonTerminal, Executed, Lost, Goto, row, Closed, Created,
            Claimed
<1> USE ModelRunAssumption DEF UpdateTrialEligibility
<1>1. CASE ReportCancelled(r)
  <2> USE <1>1 DEF ReportCancelled
  <2>1. RunTypeOK' BY UpdateTypes DEF RunTypeOK
  <2>2. RowInv' BY DEF RunTypeOK, RowInv, UpdateModelRunStatus
  <2>3. ArtifactInv' BY DEF RunTypeOK, RowInv, ArtifactInv, UpdateModelRunStatus
  <2>4. ReportInv' BY DEF RunTypeOK, RowInv, ReportInv, UpdateModelRunStatus
  <2>5. CompletedHasArtifact' BY DEF RunTypeOK, ArtifactInv, CompletedHasArtifact, UpdateModelRunStatus
  <2>6. EndedJobLeavesTerminalRow' BY DEF RunTypeOK, RowInv, ReportInv, EndedJobLeavesTerminalRow, UpdateModelRunStatus
  <2> QED BY <2>1, <2>2, <2>3, <2>4, <2>5, <2>6
<1>2. CASE ReportCompleted(r)
  <2> USE <1>2 DEF ReportCompleted
  <2>1. RunTypeOK' BY UpdateTypes DEF RunTypeOK
  <2>2. RowInv' BY DEF RunTypeOK, RowInv, UpdateModelRunStatus
  <2>3. ArtifactInv' BY DEF RunTypeOK, RowInv, ArtifactInv, UpdateModelRunStatus
  <2>4. ReportInv' BY DEF RunTypeOK, RowInv, ReportInv, UpdateModelRunStatus
  <2>5. CompletedHasArtifact' BY DEF RunTypeOK, ArtifactInv, CompletedHasArtifact, UpdateModelRunStatus
  <2>6. EndedJobLeavesTerminalRow' BY DEF RunTypeOK, RowInv, ReportInv, EndedJobLeavesTerminalRow, UpdateModelRunStatus
  <2> QED BY <2>1, <2>2, <2>3, <2>4, <2>5, <2>6
<1>3. CASE ReportFailed(r)
  <2> USE <1>3 DEF ReportFailed
  <2>1. RunTypeOK' BY UpdateTypes DEF RunTypeOK
  <2>2. RowInv' BY DEF RunTypeOK, RowInv, UpdateModelRunStatus
  <2>3. ArtifactInv' BY DEF RunTypeOK, RowInv, ArtifactInv, UpdateModelRunStatus
  <2>4. ReportInv' BY DEF RunTypeOK, RowInv, ReportInv, UpdateModelRunStatus
  <2>5. CompletedHasArtifact' BY DEF RunTypeOK, ArtifactInv, CompletedHasArtifact, UpdateModelRunStatus
  <2>6. EndedJobLeavesTerminalRow' BY DEF RunTypeOK, RowInv, ReportInv, EndedJobLeavesTerminalRow, UpdateModelRunStatus
  <2> QED BY <2>1, <2>2, <2>3, <2>4, <2>5, <2>6
<1>4. CASE ReportEligible(r) \/ ReportIneligible(r)
  <2> USE <1>4 DEF ReportEligible, ReportIneligible
  <2>1. RunTypeOK' BY DEF RunTypeOK
  <2>2. RowInv' BY DEF RunTypeOK, RowInv
  <2>3. ArtifactInv' BY DEF RunTypeOK, RowInv, ArtifactInv
  <2>4. ReportInv' BY DEF RunTypeOK, RowInv, ReportInv
  <2>5. CompletedHasArtifact' BY DEF RunTypeOK, ArtifactInv, CompletedHasArtifact
  <2>6. EndedJobLeavesTerminalRow' BY DEF RunTypeOK, RowInv, ReportInv, EndedJobLeavesTerminalRow
  <2> QED BY <2>1, <2>2, <2>3, <2>4, <2>5, <2>6
<1> QED BY <1>1, <1>2, <1>3, <1>4

\* DELETE /train preserves it.
LEMMA DeleteStep ==
    ASSUME RunInv, NEW d \in Deleters, DeleteTrain(d)
    PROVE  RunInv'
<1> USE DEF RunInv, Active, Terminal, NonTerminal, Executed, Lost, Goto, row, Closed, Created,
            Claimed
<1> USE ModelRunAssumption DEF NoRequest
<1>1. CASE \E r \in Runs : DeleteRead(d, r)
  <2> USE <1>1 DEF DeleteRead
  <2>1. RunTypeOK' BY DEF RunTypeOK
  <2>2. RowInv' BY DEF RunTypeOK, RowInv
  <2>3. ArtifactInv' BY DEF RunTypeOK, RowInv, ArtifactInv
  <2>4. ReportInv' BY DEF RunTypeOK, RowInv, ReportInv
  <2>5. CompletedHasArtifact' BY DEF RunTypeOK, ArtifactInv, CompletedHasArtifact
  <2>6. EndedJobLeavesTerminalRow' BY DEF RunTypeOK, RowInv, ReportInv, EndedJobLeavesTerminalRow
  <2> QED BY <2>1, <2>2, <2>3, <2>4, <2>5, <2>6
<1>2. CASE DeleteCancelJob(d)
  <2> USE <1>2 DEF DeleteCancelJob
  <2>1. RunTypeOK' BY CancelTypes DEF RunTypeOK
  <2>2. RowInv' BY DEF RunTypeOK, RowInv
  <2>3. ArtifactInv' BY DEF RunTypeOK, RowInv, ArtifactInv
  <2>4. ReportInv' BY DEF RunTypeOK, RowInv, ReportInv
  <2>5. CompletedHasArtifact' BY DEF RunTypeOK, ArtifactInv, CompletedHasArtifact
  <2>6. EndedJobLeavesTerminalRow' BY DEF RunTypeOK, RowInv, ReportInv, EndedJobLeavesTerminalRow
  <2> QED BY <2>1, <2>2, <2>3, <2>4, <2>5, <2>6
<1>3. CASE DeleteWrite(d)
  <2>0. del[d].run \in Runs BY <1>3 DEF DeleteWrite, RunTypeOK
  <2> USE <1>3 DEF DeleteWrite
  <2>1. RunTypeOK' BY <2>0, UpdateTypes DEF RunTypeOK
  <2>2. RowInv' BY DEF RunTypeOK, RowInv, UpdateModelRunStatus
  <2>3. ArtifactInv' BY DEF RunTypeOK, RowInv, ArtifactInv, UpdateModelRunStatus
  <2>4. ReportInv' BY DEF RunTypeOK, RowInv, ReportInv, UpdateModelRunStatus
  <2>5. CompletedHasArtifact' BY DEF RunTypeOK, ArtifactInv, CompletedHasArtifact, UpdateModelRunStatus
  <2>6. EndedJobLeavesTerminalRow' BY DEF RunTypeOK, RowInv, ReportInv, EndedJobLeavesTerminalRow, UpdateModelRunStatus
  <2> QED BY <2>1, <2>2, <2>3, <2>4, <2>5, <2>6
<1> QED BY <1>1, <1>2, <1>3 DEF DeleteTrain

\* Time, the reconciler, crashes and restarts preserve it.
LEMMA OutsideStep ==
    ASSUME RunInv,
           \/ \E r \in Runs : Age(r)
           \/ RunSweep \/ Crash \/ Restart \/ ReconcileStartup \/ UNCHANGED runVars
    PROVE  RunInv'
<1> USE DEF RunInv, Active, Terminal, NonTerminal, Executed, Lost, Goto, row, Closed, Created,
            Claimed
<1> USE ModelRunAssumption DEF NoRequest
<1>1. CASE \E r \in Runs : Age(r)
  <2> USE <1>1 DEF Age
  <2>1. RunTypeOK' BY DEF RunTypeOK
  <2>2. RowInv' BY DEF RunTypeOK, RowInv
  <2>3. ArtifactInv' BY DEF RunTypeOK, RowInv, ArtifactInv
  <2>4. ReportInv' BY DEF RunTypeOK, RowInv, ReportInv
  <2>5. CompletedHasArtifact' BY DEF RunTypeOK, ArtifactInv, CompletedHasArtifact
  <2>6. EndedJobLeavesTerminalRow' BY DEF RunTypeOK, RowInv, ReportInv, EndedJobLeavesTerminalRow
  <2> QED BY <2>1, <2>2, <2>3, <2>4, <2>5, <2>6
<1>2. CASE RunSweep \/ ReconcileStartup
  <2>0. /\ \E S : ReconcileStaleJobs(S)
        /\ UNCHANGED <<disk, worker, stop_flag, del>>
        /\ server' \in {"up", "down", "boot"}
      BY <1>2 DEF RunSweep, ReconcileStartup
  <2> USE <2>0, Reconciled
  <2>1. RunTypeOK' BY DEF RunTypeOK
  <2>2. RowInv' BY DEF RunTypeOK, RowInv
  <2>3. ArtifactInv' BY DEF RunTypeOK, RowInv, ArtifactInv
  <2>4. ReportInv' BY DEF RunTypeOK, RowInv, ReportInv
  <2>5. CompletedHasArtifact' BY DEF RunTypeOK, ArtifactInv, CompletedHasArtifact
  <2>6. EndedJobLeavesTerminalRow' BY DEF RunTypeOK, RowInv, ReportInv, EndedJobLeavesTerminalRow
  <2> QED BY <2>1, <2>2, <2>3, <2>4, <2>5, <2>6
<1>3. CASE Crash
  <2> USE <1>3 DEF Crash
  <2>1. RunTypeOK' BY DEF RunTypeOK
  <2>2. RowInv' BY DEF RunTypeOK, RowInv
  <2>3. ArtifactInv' BY DEF RunTypeOK, RowInv, ArtifactInv
  <2>4. ReportInv' BY DEF RunTypeOK, RowInv, ReportInv
  <2>5. CompletedHasArtifact' BY DEF RunTypeOK, ArtifactInv, CompletedHasArtifact
  <2>6. EndedJobLeavesTerminalRow' BY DEF RunTypeOK, RowInv, ReportInv, EndedJobLeavesTerminalRow
  <2> QED BY <2>1, <2>2, <2>3, <2>4, <2>5, <2>6
<1>4. CASE Restart \/ UNCHANGED runVars
  <2> USE <1>4 DEF Restart, runVars
  <2>1. RunTypeOK' BY DEF RunTypeOK
  <2>2. RowInv' BY DEF RunTypeOK, RowInv
  <2>3. ArtifactInv' BY DEF RunTypeOK, RowInv, ArtifactInv
  <2>4. ReportInv' BY DEF RunTypeOK, RowInv, ReportInv
  <2>5. CompletedHasArtifact' BY DEF RunTypeOK, ArtifactInv, CompletedHasArtifact
  <2>6. EndedJobLeavesTerminalRow' BY DEF RunTypeOK, RowInv, ReportInv, EndedJobLeavesTerminalRow
  <2> QED BY <2>1, <2>2, <2>3, <2>4, <2>5, <2>6
<1> QED BY <1>1, <1>2, <1>3, <1>4

\* Every step preserves the inductive invariant.
LEMMA RunNextInv == RunInv /\ [RunNext]_runVars => RunInv'
BY SubmitStep, TrainStep, ReportStep, DeleteStep, OutsideStep
DEF RunNext, RunPcaTraining

-----------------------------------------------------------------------------
(* Theorems *)

\* The inductive invariant holds of every behaviour.
THEOREM RunInvariance == RunSpec => []RunInv
BY RunInitInv, RunNextInv, PTL DEF RunSpec

\* The row, the file, the job and the requests keep their types; in particular the
\* status column only ever holds the five documented values.
THEOREM RunTypesHold == RunSpec => []RunTypeOK
BY RunInvariance, PTL DEF RunInv

\* RunPcaTraining never publishes a model whose file has not been written and
\* closed, whatever crashes, lost statements and DELETEs come in between.
THEOREM PublishedModelExists == RunSpec => []CompletedHasArtifact
BY RunInvariance, PTL DEF RunInv

\* As long as no statement is lost, no way out of RunPcaTraining leaves a row that is
\* still active.
THEOREM EndedJobsReported == RunSpec => []EndedJobLeavesTerminalRow
BY RunInvariance, PTL DEF RunInv

-----------------------------------------------------------------------------
(* How the status column moves *)

\* What one UPDATE may make of a status.
MayMove(a, b) ==
    \/ a = "NONE" /\ b = "PENDING"
    \/ a = "PENDING" /\ b \in {"RUNNING", "FAILED", "CANCELLED"}
    \/ a \in Terminal \cup {"RUNNING"} /\ b \in Terminal

LEMMA StatusMoves ==
    ASSUME RunInv, NEW r \in Runs, NEW s, MayMove(status[r], s),
           status' = [status EXCEPT ![r] = s]
    PROVE  StateMachine!StepUntilTerminal
<1>1. status \in [Runs -> {"NONE", "PENDING", "RUNNING", "COMPLETED", "FAILED", "CANCELLED"}]
    BY DEF RunInv, RunTypeOK, Terminal, NonTerminal
<1>2. s \in {"PENDING", "RUNNING", "COMPLETED", "FAILED", "CANCELLED"}
    BY DEF MayMove, Terminal
<1>3. status' \in [Runs -> DOMAIN StateMachine!ValidNext \cup {"NONE"}]
    BY <1>1, <1>2 DEF StateMachine!ValidNext
<1>4. ASSUME NEW q \in Runs
      PROVE  IF status[q] = "NONE" THEN status'[q] \in {"NONE", "PENDING"}
             ELSE IF StateMachine!IsTerminal(status[q])
                  THEN StateMachine!IsTerminal(status'[q])
             ELSE /\ status'[q] # "NONE"
                  /\ StateMachine!IsTransitionAllowed(status[q], status'[q])
  <2>1. CASE q = r
    <3>1. status'[q] = s /\ status[q] = status[r]
        BY <1>1, <2>1
    <3> QED
        BY <3>1
        DEF MayMove, Terminal, StateMachine!IsTerminal, StateMachine!Terminal,
            StateMachine!IsTransitionAllowed, StateMachine!ValidNext
  <2>2. CASE q # r
    <3>1. status'[q] = status[q]
        BY <1>1, <2>2
    <3> QED
        BY <1>1, <3>1
        DEF StateMachine!IsTerminal, StateMachine!Terminal,
            StateMachine!IsTransitionAllowed, StateMachine!ValidNext
  <2> QED BY <2>1, <2>2
<1> QED BY <1>3, <1>4, Zenon DEF StateMachine!StepUntilTerminal

\* One step moves the status of every run as the state machine allows, up to
\* overwriting a terminal status by another one.
LEMMA StatusStep ==
    ASSUME RunInv, [RunNext]_runVars
    PROVE  [StateMachine!StepUntilTerminal]_status
<1> USE DEF RunInv, Terminal, NonTerminal, row
<1>1. ASSUME NEW r \in Runs, NEW s \in Terminal, UpdateModelRunStatus(r, s),
             Created(r), s = "COMPLETED" => Claimed(r)
      PROVE  [StateMachine!StepUntilTerminal]_status
  <2>1. MayMove(status[r], s)
      BY <1>1 DEF RunTypeOK, Created, Claimed, MayMove
  <2> QED BY <1>1, <2>1, StatusMoves DEF UpdateModelRunStatus
<1>2. ASSUME NEW S, ReconcileStaleJobs(S)
      PROVE  [StateMachine!StepUntilTerminal]_status
    BY <1>2, Reconciled
    DEF RunTypeOK, StateMachine!StepUntilTerminal, StateMachine!ValidNext,
        StateMachine!IsTerminal, StateMachine!Terminal, StateMachine!IsTransitionAllowed
<1>3. ASSUME NEW r \in Runs, Submit(r) \/ Claim(r)
      PROVE  [StateMachine!StepUntilTerminal]_status
  <2>1. CASE Submit(r)
      BY <2>1, StatusMoves, Zenon DEF Submit, MayMove
  <2>2. CASE Claim(r)
    <3>1. \/ status' = status
          \/ status[r] = "PENDING" /\ status' = [status EXCEPT ![r] = "RUNNING"]
        BY <2>2 DEF Claim
    <3> QED BY <3>1, StatusMoves DEF MayMove
  <2> QED BY <1>3, <2>1, <2>2
<1>4. ASSUME NEW r \in Runs, ReportCancelled(r) \/ ReportCompleted(r) \/ ReportFailed(r)
      PROVE  [StateMachine!StepUntilTerminal]_status
    BY <1>1, <1>4 DEF ReportCancelled, ReportCompleted, ReportFailed, RowInv, Claimed,
                      Created
<1>5. ASSUME NEW d \in Deleters, DeleteWrite(d)
      PROVE  [StateMachine!StepUntilTerminal]_status
  <2>1. del[d].run \in Runs /\ Created(del[d].run)
      BY <1>5 DEF DeleteWrite, RunTypeOK, RowInv, NoRequest
  <2> QED BY <1>1, <1>5, <2>1 DEF DeleteWrite
<1>6. CASE RunSweep \/ ReconcileStartup
    BY <1>2, <1>6 DEF RunSweep, ReconcileStartup
<1>7. CASE \/ \E r \in Runs : \/ StartJobAccepted(r) \/ StartJobRejected(r) \/ Recheck(r)
                             \/ Heartbeat(r) \/ TrainReturns(r) \/ TrainThrows(r)
                             \/ OpenArtifact(r) \/ WriteArtifact(r) \/ Age(r)
                             \/ ReportEligible(r) \/ ReportIneligible(r)
           \/ \E d \in Deleters : DeleteCancelJob(d) \/ \E r \in Runs : DeleteRead(d, r)
           \/ Crash \/ Restart \/ UNCHANGED runVars
  <2>1. UNCHANGED status
      BY <1>7
      DEF StartJobAccepted, StartJobRejected, Recheck, Heartbeat, TrainReturns,
          TrainThrows, OpenArtifact, WriteArtifact, Age, ReportEligible,
          ReportIneligible, UpdateTrialEligibility, DeleteCancelJob, DeleteRead, Crash,
          Restart, runVars
  <2> QED BY <2>1
<1> QED
    BY <1>3, <1>4, <1>5, <1>6, <1>7, ZenonT(30)
    DEF RunNext, HandleTrainModel, RunPcaTraining, DeleteTrain

\* Refinement: the rows of model_runs implement the state machine up to their first
\* terminal status, for any number of runs and requests.
THEOREM RefinesUntilTerminal == RunSpec => FollowsUntilTerminal
<1>1. RunInit => StateMachine!Init
    BY DEF RunInit, StateMachine!Init
<1> QED
    BY <1>1, StatusStep, RunInvariance, PTL
    DEF RunSpec, FollowsUntilTerminal, StateMachine!UntilTerminal

\* A terminal status is overwritten only by a DELETE that read the row earlier or by
\* the run's own job.
THEOREM OverwritesAreRaces == RunSpec => TerminalOverwrittenByRace
<1>1. ASSUME RunInv, [RunNext]_runVars
      PROVE  [\A r \in Runs : status[r] \in Terminal /\ status'[r] # status[r] =>
                \/ \E d \in Deleters :
                      del[d] = [pc |-> "write", run |-> r] /\ del'[d] = NoRequest
                \/ worker[r] \in {"cancel", "report", "fail"} /\ worker'[r] # worker[r]]_runVars
  <2> SUFFICES ASSUME RunNext, NEW r \in Runs, status[r] \in Terminal, status'[r] # status[r]
               PROVE  \/ \E d \in Deleters :
                            del[d] = [pc |-> "write", run |-> r] /\ del'[d] = NoRequest
                      \/ worker[r] \in {"cancel", "report", "fail"} /\ worker'[r] # worker[r]
      BY <1>1
  <2>1. CASE \E q \in Runs : ReportCancelled(q) \/ ReportCompleted(q) \/ ReportFailed(q)
      BY <1>1, <2>1
      DEF ReportCancelled, ReportCompleted, ReportFailed, UpdateModelRunStatus, Goto, RunInv,
          RunTypeOK, row
  <2>2. CASE \E d \in Deleters : DeleteWrite(d)
    <3>1. PICK d \in Deleters : DeleteWrite(d)
        BY <2>2
    <3>2. del[d] \in [pc : {"cancel", "write"}, run : Runs]
        BY <1>1, <3>1 DEF DeleteWrite, RunInv, RunTypeOK, NoRequest
    <3>3. del[d] = [pc |-> "write", run |-> r] /\ del'[d] = NoRequest
        BY <1>1, <3>1, <3>2 DEF DeleteWrite, UpdateModelRunStatus, RunInv, RunTypeOK, row
    <3> QED BY <3>3
  <2>3. CASE RunSweep \/ ReconcileStartup
    <3>1. \E S : ReconcileStaleJobs(S)
        BY <2>3 DEF RunSweep, ReconcileStartup
    <3> QED BY <1>1, <3>1, Reconciled DEF RunInv, Terminal, NonTerminal
  <2>4. CASE \E q \in Runs : Submit(q) \/ Claim(q)
      BY <1>1, <2>4 DEF Submit, Claim, Terminal, RunInv, RunTypeOK, row
  <2>5. CASE \/ \E q \in Runs : \/ StartJobAccepted(q) \/ StartJobRejected(q) \/ Recheck(q)
                               \/ Heartbeat(q) \/ TrainReturns(q) \/ TrainThrows(q)
                               \/ OpenArtifact(q) \/ WriteArtifact(q) \/ Age(q)
                               \/ ReportEligible(q) \/ ReportIneligible(q)
             \/ \E d \in Deleters : DeleteCancelJob(d) \/ \E q \in Runs : DeleteRead(d, q)
             \/ Crash \/ Restart
      BY <2>5
      DEF StartJobAccepted, StartJobRejected, Recheck, Heartbeat, TrainReturns,
          TrainThrows, OpenArtifact, WriteArtifact, Age, ReportEligible,
          ReportIneligible, UpdateTrialEligibility, DeleteCancelJob, DeleteRead, Crash,
          Restart, row
  <2> QED
      BY <2>1, <2>2, <2>3, <2>4, <2>5
      DEF RunNext, HandleTrainModel, RunPcaTraining, DeleteTrain
<1> QED
    BY <1>1, RunInvariance, PTL DEF RunSpec, TerminalOverwrittenByRace

-----------------------------------------------------------------------------
(* JobManager *)

(* The inductive invariant, by parts. *)

\* A StartJob in progress holds mutex_; a job thread that calls StartJob is at work.
CallInv ==
    /\ MutexFree <=> starting = NoJob
    /\ mutex_ \in Threads => phase[mutex_] = "working"

\* The id that a StartJob in progress is about to use is not running.
StartingInv ==
    ~MutexFree /\ ~MayRestartRunning => jobs_[starting] # "RUNNING"

\* A thread that was given to the std::thread constructor captured an id.
JobInv == \A t \in Threads : phase[t] # "unborn" => job[t] \in JobIds

\* A wrapper that holds a slot is the only one of its id, the id is RUNNING and
\* its flag can be reached or is raised.
SlotInv ==
    \A t \in SlotHolders :
        /\ jobs_[job[t]] = "RUNNING"
        /\ \A u \in SlotHolders : job[u] = job[t] => u = t
        /\ stop_flags_[job[t]] = t \/ flag[t]

\* What threads_ holds is a joinable thread of that id, which jobs_ knows.
MapInv ==
    \A id \in JobIds : threads_[id] # NoThread =>
        /\ jobs_[id] # "ABSENT"
        /\ job[threads_[id]] = id
        /\ phase[threads_[id]] \in JoinablePhase

\* A thread that is still to be joined is in threads_, or Stop is about to join it.
JoinInv ==
    \A t \in Threads : phase[t] \in JoinablePhase =>
        threads_[job[t]] = t \/ t \in to_join

\* One Stop call does the work; once it has collected, nothing is in threads_,
\* no StartJob is in progress, and when it returns nothing is left to join.
StopInv ==
    /\ \A s \in Stoppers : stop_pc[s] \in {"collect", "join", "joined"} => stopping_
    /\ \A s, r \in Stoppers :
          /\ stop_pc[s] \in {"collect", "join", "joined"}
          /\ stop_pc[r] \in {"collect", "join", "joined"}
          => s = r
    /\ \A s \in Stoppers : stop_pc[s] \in {"join", "joined"} =>
          MutexFree /\ \A id \in JobIds : threads_[id] = NoThread
    /\ \A s \in Stoppers : stop_pc[s] = "joined" => to_join = {}
    /\ to_join # {} => \E s \in Stoppers : stop_pc[s] = "join"

SlotCountInv == IsFiniteSet(SlotHolders) /\ SlotAccounting

JobInvs ==
    /\ TypeOK
    /\ CallInv
    /\ StartingInv
    /\ JobInv
    /\ SlotInv
    /\ MapInv
    /\ JoinInv
    /\ StopInv
    /\ NeverTerminates
    /\ SlotCountInv

-----------------------------------------------------------------------------
(* Steps that neither take nor give back a slot *)

\* Calls that touch neither threads nor maps: StartJob's entry and its "queue
\* full" exit, CancelJob, SetMaxConcurrentJobs, and a stuttering step.
LEMMA CallStep ==
    ASSUME ~MayRestartRunning, JobInvs,
           \/ \E c \in Threads \cup {Client}, id \in JobIds : StartJobLock(c, id)
           \/ StartJobReject
           \/ \E id \in JobIds : CancelJob(id)
           \/ \E n \in Limits : SetMaxConcurrentJobs(n)
           \/ UNCHANGED vars
    PROVE  JobInvs'
<1> USE DEF mapVars, slotVars, callVars, threadVars, stopVars
<1>0. UNCHANGED <<jobs_, stop_flags_, threads_, job, phase, to_join, current_jobs_>>
    BY DEF StartJobLock, StartJobReject, CancelJob, SetMaxConcurrentJobs, vars
<1>1. SlotHolders' = SlotHolders /\ UNCHANGED current_jobs_
    BY <1>0 DEF SlotHolders
<1>2. TypeOK'
    BY ConstantsAssumption, ZenonT(30)
    DEF JobInvs, TypeOK, Phase, StartJobLock, StartJobReject, CancelJob,
        SetMaxConcurrentJobs, vars
<1>3. (CallInv /\ StartingInv /\ JobInv /\ NeverTerminates)'
    BY ConstantsAssumption
    DEF JobInvs, TypeOK, CallInv, StartingInv, JobInv, NeverTerminates,
        MutexFree, StartJobLock, StartJobReject, CancelJob,
        SetMaxConcurrentJobs, vars
<1>4. SlotInv'
  <2>1. UNCHANGED <<jobs_, stop_flags_, job>>
      BY <1>0
  <2>2. \A t \in Threads : flag[t] => flag'[t]
      BY DEF JobInvs, TypeOK, StartJobLock, StartJobReject, CancelJob,
             SetMaxConcurrentJobs, vars
  <2>3. SlotHolders \subseteq Threads
      BY DEF SlotHolders
  <2> QED BY <1>1, <2>1, <2>2, <2>3 DEF JobInvs, SlotInv
<1>5. (MapInv /\ JoinInv)'
    BY <1>0 DEF JobInvs, MapInv, JoinInv
<1>6. StopInv'
    BY DEF JobInvs, TypeOK, StopInv, MutexFree, StartJobLock, StartJobReject, CancelJob,
        SetMaxConcurrentJobs, vars
<1>7. SlotCountInv'
    BY <1>1 DEF JobInvs, SlotCountInv, SlotAccounting
<1> QED
    BY <1>2, <1>3, <1>4, <1>5, <1>6, <1>7 DEF JobInvs

\* A job's work ends, or its thread exits after the wrapper released mutex_.
LEMMA WorkStep ==
    ASSUME ~MayRestartRunning, JobInvs,
           NEW t \in Threads,
           WorkReturns(t) \/ WorkThrows(t) \/ ThreadExit(t)
    PROVE  JobInvs'
<1> USE DEF mapVars, slotVars, callVars, threadVars, stopVars
<1>0. UNCHANGED <<jobs_, stop_flags_, threads_, flag, job, to_join>>
    BY DEF WorkReturns, WorkThrows, ThreadExit
<1>1. SlotHolders' = SlotHolders /\ UNCHANGED current_jobs_
    BY DEF JobInvs, TypeOK, SlotHolders, SlotPhase, WorkReturns, WorkThrows, ThreadExit
<1>2. TypeOK'
    BY ConstantsAssumption DEF JobInvs, TypeOK, Phase, WorkReturns, WorkThrows, ThreadExit
<1>3. (CallInv /\ StartingInv /\ JobInv /\ NeverTerminates)'
    BY ConstantsAssumption
    DEF JobInvs, TypeOK, CallInv, StartingInv, JobInv, NeverTerminates,
        MutexFree, WorkReturns, WorkThrows, ThreadExit
<1>4. SlotInv'
    BY <1>0, <1>1 DEF JobInvs, SlotInv
<1>5. (MapInv /\ JoinInv)'
  <2>1. \A u \in Threads : phase'[u] \in JoinablePhase <=> phase[u] \in JoinablePhase
      BY DEF JobInvs, TypeOK, JoinablePhase, WorkReturns, WorkThrows, ThreadExit
  <2>2. \A id \in JobIds : threads_[id] \in Threads \cup {NoThread}
      BY DEF JobInvs, TypeOK
  <2> QED BY <1>0, <2>1, <2>2 DEF JobInvs, MapInv, JoinInv
<1>6. StopInv'
    BY DEF JobInvs, TypeOK, StopInv, MutexFree, WorkReturns, WorkThrows, ThreadExit
<1>7. SlotCountInv'
    BY <1>1 DEF JobInvs, SlotCountInv, SlotAccounting
<1> QED
    BY <1>2, <1>3, <1>4, <1>5, <1>6, <1>7 DEF JobInvs

\* CleanupFinishedThreads joins a thread whose id is no longer RUNNING, so it
\* takes no running job's flag away.
LEMMA CleanupStep ==
    ASSUME ~MayRestartRunning, JobInvs,
           NEW id \in JobIds, CleanupFinishedThreads(id)
    PROVE  JobInvs'
<1> USE DEF mapVars, slotVars, callVars, threadVars, stopVars
<1>1. SlotHolders' = SlotHolders /\ UNCHANGED current_jobs_
    BY DEF JobInvs, TypeOK, SlotHolders, SlotPhase, CleanupFinishedThreads, FinishedIds
<1>2. TypeOK'
    BY ConstantsAssumption DEF JobInvs, TypeOK, Phase, CleanupFinishedThreads, FinishedIds
<1>3. (CallInv /\ StartingInv /\ JobInv /\ NeverTerminates)'
    BY ConstantsAssumption
    DEF JobInvs, TypeOK, CallInv, StartingInv, JobInv, NeverTerminates,
        MutexFree, CleanupFinishedThreads, FinishedIds
<1>4. SlotInv'
  <2>1. \A t \in SlotHolders : stop_flags_'[job[t]] = stop_flags_[job[t]]
      BY DEF JobInvs, TypeOK, SlotInv, CleanupFinishedThreads, FinishedIds
  <2>2. UNCHANGED <<jobs_, flag, job>>
      BY DEF CleanupFinishedThreads
  <2> QED BY <1>1, <2>1, <2>2 DEF JobInvs, SlotInv
<1>5. (MapInv /\ JoinInv)'
    BY ConstantsAssumption
    DEF JobInvs, TypeOK, JobInv, MapInv, JoinInv, JoinablePhase, CleanupFinishedThreads, FinishedIds
<1>6. StopInv'
    BY DEF JobInvs, TypeOK, StopInv, MutexFree, CleanupFinishedThreads, FinishedIds
<1>7. SlotCountInv'
    BY <1>1 DEF JobInvs, SlotCountInv, SlotAccounting
<1> QED
    BY <1>2, <1>3, <1>4, <1>5, <1>6, <1>7 DEF JobInvs

\* Stop's entry, each of its joins, and its return.
LEMMA StopStep ==
    ASSUME ~MayRestartRunning, JobInvs,
           NEW s \in Stoppers,
           \/ StopExchange(s)
           \/ \E t \in Threads : StopJoin(s, t)
           \/ StopReturn(s)
    PROVE  JobInvs'
<1> USE DEF mapVars, slotVars, callVars, threadVars, stopVars
<1>0. UNCHANGED <<jobs_, stop_flags_, threads_, flag, job, mutex_, starting, terminated>>
    BY DEF StopExchange, StopJoin, StopReturn
<1>1. SlotHolders' = SlotHolders /\ UNCHANGED current_jobs_
    BY DEF JobInvs, TypeOK, SlotHolders, SlotPhase, StopExchange, StopJoin, StopReturn
<1>2. TypeOK'
  <2>1. /\ phase' \in [Threads -> Phase]
        /\ stop_pc' \in [Stoppers -> {"idle", "early", "collect", "join", "joined"}]
        /\ to_join' \in SUBSET Threads
        /\ max_jobs_' = max_jobs_ /\ current_jobs_' = current_jobs_
      BY DEF JobInvs, TypeOK, Phase, StopExchange, StopJoin, StopReturn
  <2>2. stopping_' \in BOOLEAN
      BY Zenon DEF JobInvs, TypeOK, StopExchange, StopJoin, StopReturn
  <2> QED BY <1>0, <2>1, <2>2, Zenon DEF JobInvs, TypeOK
<1>3. (CallInv /\ StartingInv /\ JobInv /\ NeverTerminates)'
    BY ConstantsAssumption
    DEF JobInvs, TypeOK, CallInv, StartingInv, JobInv, NeverTerminates,
        MutexFree, StopExchange, StopJoin, StopReturn
<1>4. SlotInv'
    BY <1>0, <1>1 DEF JobInvs, SlotInv
<1>5. (MapInv /\ JoinInv)'
  <2>1. ASSUME NEW t \in Threads, StopJoin(s, t) PROVE (MapInv /\ JoinInv)'
    <3>1. \A id \in JobIds : threads_[id] = NoThread
        BY <2>1 DEF JobInvs, StopInv, StopJoin
    <3>2. MapInv'
        BY <1>0, <3>1 DEF MapInv
    <3>3. \A u \in Threads : phase'[u] \in JoinablePhase =>
              phase[u] \in JoinablePhase /\ u # t
        BY <2>1 DEF JobInvs, TypeOK, JoinablePhase, StopJoin
    <3>4. JoinInv'
        BY <1>0, <2>1, <3>3 DEF JobInvs, JoinInv, StopJoin
    <3> QED BY <3>2, <3>4
  <2>2. CASE StopExchange(s) \/ StopReturn(s)
      BY <1>0, <2>2 DEF JobInvs, MapInv, JoinInv, StopExchange, StopReturn
  <2> QED BY <2>1, <2>2
<1>6. StopInv'
    BY DEF JobInvs, TypeOK, StopInv, MutexFree, StopExchange, StopJoin, StopReturn
<1>7. SlotCountInv'
    BY <1>1 DEF JobInvs, SlotCountInv, SlotAccounting
<1> QED
    BY <1>2, <1>3, <1>4, <1>5, <1>6, <1>7 DEF JobInvs

\* Stop collects: every flag that is cleared has been raised, and every thread
\* that leaves threads_ is in to_join.
LEMMA CollectStep ==
    ASSUME ~MayRestartRunning, JobInvs, NEW s \in Stoppers, StopCollect(s)
    PROVE  JobInvs'
<1> USE DEF mapVars, slotVars, callVars, threadVars, stopVars
<1>1. SlotHolders' = SlotHolders /\ UNCHANGED current_jobs_
    BY DEF SlotHolders, StopCollect
<1>2. (TypeOK /\ CallInv /\ StartingInv /\ JobInv /\ NeverTerminates)'
    BY DEF JobInvs, TypeOK, CallInv, StartingInv, JobInv, NeverTerminates,
           MutexFree, StopCollect
<1>3. SlotInv'
  <2> SUFFICES ASSUME NEW t \in SlotHolders
               PROVE  /\ jobs_'[job'[t]] = "RUNNING"
                      /\ \A u \in SlotHolders : job'[u] = job'[t] => u = t
                      /\ flag'[t]
      BY <1>1 DEF SlotInv
  <2>1. t \in Threads /\ job[t] \in JobIds
      BY DEF JobInvs, JobInv, SlotHolders, SlotPhase
  <2>2. stop_flags_[job[t]] = t \/ flag[t]
      BY DEF JobInvs, SlotInv
  <2>3. flag'[t]
      BY <2>1, <2>2, Zenon DEF StopCollect
  <2> QED
      BY <2>3 DEF JobInvs, SlotInv, StopCollect
<1>4. MapInv'
    BY DEF MapInv, StopCollect
<1>5. JoinInv'
  <2> SUFFICES ASSUME NEW t \in Threads, phase[t] \in JoinablePhase
               PROVE  t \in to_join'
      BY DEF JoinInv, StopCollect
  <2>1. job[t] \in JobIds
      BY DEF JobInvs, JobInv, JoinablePhase
  <2>2. t \notin to_join
      BY DEF JobInvs, StopInv, StopCollect
  <2> QED
      BY <2>1, <2>2 DEF JobInvs, JoinInv, StopCollect
<1>6. StopInv'
    BY DEF JobInvs, TypeOK, StopInv, MutexFree, StopCollect
<1>7. SlotCountInv'
    BY <1>1 DEF JobInvs, SlotCountInv, SlotAccounting
<1> QED
    BY <1>2, <1>3, <1>4, <1>5, <1>6, <1>7 DEF JobInvs

-----------------------------------------------------------------------------
(* Steps that take or give back a slot *)

\* StartJob registers the job and creates its thread, or fails to.  The entry of
\* threads_ it assigns to is empty: the id is not RUNNING, and no thread of a
\* finished job was left behind by CleanupFinishedThreads.
LEMMA SpawnStep ==
    ASSUME ~MayRestartRunning, JobInvs, NEW t \in Threads,
           StartJobSpawn(t) \/ StartJobSpawnFails(t)
    PROVE  JobInvs'
<1> USE DEF mapVars, slotVars, callVars, threadVars, stopVars,
            StartJobSpawn, StartJobSpawnFails, StartJobRegister
<1>1. /\ starting \in JobIds
      /\ jobs_[starting] # "RUNNING"
      /\ threads_[starting] = NoThread
    BY DEF JobInvs, TypeOK, CallInv, StartingInv, MapInv, MutexFree, FinishedIds
<1>2. t \notin SlotHolders /\ SlotHolders' = SlotHolders \cup {t}
    BY DEF JobInvs, TypeOK, SlotHolders, SlotPhase
<1>3. TypeOK'
  <2> HIDE DEF StartJobSpawn, StartJobSpawnFails
  <2>1. StartJobRegister(t)
      BY DEF StartJobSpawn, StartJobSpawnFails
  <2>2. /\ phase' \in [Threads -> Phase]
        /\ threads_' \in [JobIds -> Threads \cup {NoThread}]
        /\ terminated' \in BOOLEAN
      BY <1>1 DEF JobInvs, TypeOK, NeverTerminates, Phase, StartJobSpawn, StartJobSpawnFails
  <2>3. /\ jobs_' \in [JobIds -> Status \cup {"ABSENT"}]
        /\ stop_flags_' \in [JobIds -> Threads \cup {NoThread}]
        /\ flag' \in [Threads -> BOOLEAN]
        /\ job' \in [Threads -> JobIds \cup {NoJob}]
      BY <1>1, <2>1 DEF JobInvs, TypeOK, Status
  <2>4. /\ UNCHANGED <<stopping_, max_jobs_, stop_pc, to_join>>
        /\ current_jobs_' = current_jobs_ + 1
        /\ mutex_' = NoThread /\ starting' = NoJob
      BY <2>1
  <2>5. current_jobs_' \in Nat
      BY <2>4 DEF JobInvs, TypeOK
  <2> HIDE DEF StartJobRegister
  <2> QED
      BY <2>2, <2>3, <2>4, <2>5, Zenon DEF JobInvs, TypeOK
<1>4. (CallInv /\ StartingInv /\ JobInv /\ NeverTerminates)'
    BY <1>1, ConstantsAssumption
    DEF JobInvs, TypeOK, CallInv, StartingInv, JobInv, NeverTerminates, MutexFree
<1>5. SlotInv'
  <2>1. StartJobRegister(t)
      BY DEF StartJobSpawn, StartJobSpawnFails
  <2> HIDE DEF StartJobSpawn, StartJobSpawnFails
  <2>2. /\ job'[t] = starting /\ jobs_'[starting] = "RUNNING"
        /\ stop_flags_'[starting] = t
      BY <1>1, <2>1 DEF JobInvs, TypeOK
  <2>3. ASSUME NEW u \in SlotHolders
        PROVE  /\ u \in Threads /\ u # t /\ job[u] \in JobIds /\ job[u] # starting
      BY <1>1, <1>2 DEF JobInvs, JobInv, SlotInv, SlotHolders, SlotPhase
  <2>4. ASSUME NEW u \in SlotHolders
        PROVE  /\ job'[u] = job[u] /\ jobs_'[job[u]] = jobs_[job[u]]
               /\ stop_flags_'[job[u]] = stop_flags_[job[u]] /\ flag'[u] = flag[u]
      BY <2>1, <2>3, Zenon DEF JobInvs, TypeOK
  <2> HIDE DEF StartJobRegister
  <2>5. ASSUME NEW u \in SlotHolders
        PROVE  /\ jobs_'[job'[u]] = "RUNNING" /\ job'[u] # job'[t]
               /\ stop_flags_'[job'[u]] = u \/ flag'[u]
      BY <2>2, <2>3, <2>4, Zenon DEF JobInvs, SlotInv
  <2>6. ASSUME NEW u \in SlotHolders, NEW w \in SlotHolders, job'[u] = job'[w]
        PROVE  u = w
    <3>1. job[u] = job[w]
        BY <2>4, <2>6
    <3> QED BY <3>1 DEF JobInvs, SlotInv
  <2> QED
      BY <1>2, <2>2, <2>5, <2>6, Zenon DEF SlotInv
<1>6. (MapInv /\ JoinInv)'
    BY <1>1, ConstantsAssumption
    DEF JobInvs, TypeOK, JobInv, MapInv, JoinInv, JoinablePhase
<1>7. StopInv'
    BY DEF JobInvs, TypeOK, StopInv, MutexFree
<1>8. SlotCountInv'
    BY <1>2, FS_AddElement DEF JobInvs, TypeOK, SlotCountInv, SlotAccounting
<1> QED
    BY <1>3, <1>4, <1>5, <1>6, <1>7, <1>8 DEF JobInvs

\* The wrapper records its outcome and gives back its own slot.
LEMMA FinishStep ==
    ASSUME ~MayRestartRunning, JobInvs, NEW t \in Threads, WrapperFinish(t)
    PROVE  JobInvs'
<1> USE DEF mapVars, slotVars, callVars, threadVars, stopVars, WrapperFinish
<1>1. t \in SlotHolders /\ SlotHolders' = SlotHolders \ {t}
    BY DEF JobInvs, TypeOK, SlotHolders, SlotPhase
<1>2. job[t] \in JobIds
    BY DEF JobInvs, JobInv
<1>3. current_jobs_' \in Nat /\ SlotCountInv'
  <2>1. /\ IsFiniteSet(SlotHolders)
        /\ current_jobs_ = Cardinality(SlotHolders)
      BY DEF JobInvs, SlotCountInv, SlotAccounting
  <2>2. /\ IsFiniteSet(SlotHolders \ {t})
        /\ Cardinality(SlotHolders \ {t}) = Cardinality(SlotHolders) - 1
      BY <1>1, <2>1, FS_RemoveElement
  <2>3. Cardinality(SlotHolders \ {t}) \in Nat
      BY <2>2, FS_CardinalityType
  <2> QED
      BY <1>1, <2>1, <2>2, <2>3 DEF SlotCountInv, SlotAccounting
<1>4. (TypeOK /\ CallInv /\ StartingInv /\ JobInv /\ NeverTerminates)'
    BY <1>2, <1>3
    DEF JobInvs, TypeOK, Phase, Status, Outcome, CallInv, StartingInv, JobInv,
        NeverTerminates, MutexFree
<1>5. SlotInv'
    BY <1>1, <1>2 DEF JobInvs, TypeOK, JobInv, SlotInv, SlotHolders, SlotPhase
<1>6. (MapInv /\ JoinInv)'
    BY <1>2 DEF JobInvs, TypeOK, JobInv, MapInv, JoinInv, JoinablePhase, Outcome
<1>7. StopInv'
    BY DEF JobInvs, TypeOK, StopInv, MutexFree
<1> QED
    BY <1>3, <1>4, <1>5, <1>6, <1>7 DEF JobInvs

-----------------------------------------------------------------------------
(* The invariant and what follows from it *)

\* A JobManager that has just been constructed satisfies the invariant.
LEMMA JobInitInv == Init => JobInvs
<1> SUFFICES ASSUME Init PROVE JobInvs
    OBVIOUS
<1>1. SlotHolders = {}
    BY DEF Init, SlotHolders, SlotPhase
<1>2. SlotCountInv
    BY <1>1, FS_EmptySet DEF Init, SlotCountInv, SlotAccounting
<1>3. TypeOK /\ CallInv /\ StartingInv /\ JobInv /\ NeverTerminates
    BY ConstantsAssumption, Zenon
    DEF Init, TypeOK, Phase, CallInv, StartingInv, JobInv, NeverTerminates, MutexFree
<1>4. SlotInv /\ MapInv /\ JoinInv /\ StopInv
    BY <1>1 DEF Init, SlotInv, MapInv, JoinInv, JoinablePhase, StopInv
<1> QED
    BY <1>2, <1>3, <1>4 DEF JobInvs

\* Every step of StartJob, a wrapper, CancelJob, SetMaxConcurrentJobs and Stop
\* preserves it.
LEMMA JobNextInv ==
    ASSUME ~MayRestartRunning, JobInvs, [Next]_vars
    PROVE  JobInvs'
BY CallStep, WorkStep, CleanupStep, StopStep, CollectStep, SpawnStep, FinishStep
DEF Next, StartJob, Wrapper, Stop

\* The inductive invariant holds of every behaviour in which no caller reuses
\* the id of a running job.
THEOREM JobInvariance ==
    ASSUME ~MayRestartRunning
    PROVE  Spec => []JobInvs
BY JobInitInv, JobNextInv, PTL DEF Spec

\* StartJob, the wrapper, cancellation and Stop keep their promises whatever
\* the number of jobs, threads and Stop callers: slots are counted exactly, the
\* status reported follows the thread, a cancel request reaches the thread that
\* runs the job, Stop leaves no thread behind and no joinable std::thread is
\* assigned over.
THEOREM JobManagerSafety ==
    ASSUME ~MayRestartRunning
    PROVE  Spec => [](/\ TypeOK
                      /\ SlotAccounting
                      /\ StatusTracksThread
                      /\ CancelReachesThread
                      /\ StopJoinsEveryThread
                      /\ NeverTerminates)
<1>1. JobInvs => TypeOK /\ SlotAccounting /\ CancelReachesThread /\ NeverTerminates
    BY DEF JobInvs, SlotCountInv, SlotInv, CancelReachesThread
<1>2. JobInvs => StatusTracksThread
    BY DEF JobInvs, SlotInv, StatusTracksThread, GetStatus
<1>3. JobInvs => StopJoinsEveryThread
  <2> SUFFICES ASSUME JobInvs, NEW s \in Stoppers, stop_pc[s] = "joined",
                      NEW t \in Threads
               PROVE  phase[t] \in {"unborn", "stillborn", "joined"}
      BY DEF StopJoinsEveryThread
  <2>1. phase[t] \notin JoinablePhase
      BY ConstantsAssumption
      DEF JobInvs, StopInv, JobInv, JoinInv, JoinablePhase
  <2> QED
      BY <2>1 DEF JobInvs, TypeOK, Phase, JoinablePhase
<1> QED
    BY <1>1, <1>2, <1>3, JobInvariance, PTL

\* The maps, the counters and every thread's position keep their types, so that the
\* slot counter in particular never leaves its range.
THEOREM JobTypesHold ==
    ASSUME ~MayRestartRunning
    PROVE  Spec => []TypeOK
BY JobManagerSafety, PTL

\* current_jobs_ counts the slots that are really held, whoever fails or throws.
THEOREM SlotsCounted ==
    ASSUME ~MayRestartRunning
    PROVE  Spec => []SlotAccounting
BY JobManagerSafety, PTL

\* GetStatus tells what the job's thread has done, at any moment of any interleaving.
THEOREM StatusFollowsThread ==
    ASSUME ~MayRestartRunning
    PROVE  Spec => []StatusTracksThread
BY JobManagerSafety, PTL

\* A cancel request, and Stop, reach the flag that the running work polls.
THEOREM CancelArrives ==
    ASSUME ~MayRestartRunning
    PROVE  Spec => []CancelReachesThread
BY JobManagerSafety, PTL

\* When a call of Stop has joined, no thread is left to be joined by anybody.
THEOREM StopLeavesNoThread ==
    ASSUME ~MayRestartRunning
    PROVE  Spec => []StopJoinsEveryThread
BY JobManagerSafety, PTL

\* No joinable std::thread is assigned over or destroyed.
THEOREM NoTerminate ==
    ASSUME ~MayRestartRunning
    PROVE  Spec => []NeverTerminates
BY JobManagerSafety, PTL

\* Every thread is created while fewer than max_jobs_ slots are really held.
THEOREM LimitRespected ==
    ASSUME ~MayRestartRunning
    PROVE  Spec => StartsWithinLimit
<1>1. ASSUME JobInvs, [Next]_vars
      PROVE  [\A t \in Threads :
                phase[t] = "unborn" /\ phase'[t] = "working"
                => Cardinality(SlotHolders) < max_jobs_]_vars
  <2> SUFFICES ASSUME NEW t \in Threads, Next,
                      phase[t] = "unborn", phase'[t] = "working"
               PROVE  Cardinality(SlotHolders) < max_jobs_
      BY <1>1
  <2>1. \E u \in Threads : StartJobSpawn(u)
      BY <1>1, Zenon
      DEF Next, StartJob, Wrapper, Stop, JobInvs, TypeOK,
          mapVars, slotVars, callVars, threadVars, stopVars,
          StartJobLock, CleanupFinishedThreads, StartJobReject,
          StartJobSpawnFails, WorkReturns, WorkThrows, WrapperFinish, ThreadExit,
          CancelJob, SetMaxConcurrentJobs, StopExchange, StopCollect, StopJoin,
          StopReturn
  <2> QED
      BY <1>1, <2>1
      DEF StartJobSpawn, StartJobRegister, JobInvs, SlotCountInv, SlotAccounting
<1> QED
    BY <1>1, JobInvariance, PTL DEF Spec, StartsWithinLimit
=============================================================================

------------------------------ MODULE ScoreJob ------------------------------
(***************************************************************************)
(* Scoring a dataset with a model: the requests POST /jobs/score_dataset,  *)
(* the job they start (ApiServer::HandleScoreDatasetJob), its row in       *)
(* dataset_score_jobs, the rows it adds to dataset_scores, DELETE /jobs,   *)
(* the reconciler and crashes of the API server, for one dataset and one   *)
(* model.                                                                  *)
(*                                                                         *)
(* As in ModelRun, a statement that DbClient sends is one step, and a      *)
(* statement may fail: UpdateScoreJob swallows the error, GetScoreJob then *)
(* yields a null json (whose value() throws), the others throw.            *)
(*                                                                         *)
(* Records are numbered from 1 in the order of their record_id.  The       *)
(* generator may still be adding some while they are scored.               *)
(***************************************************************************)
EXTENDS Integers, FiniteSets, FiniteSetsExt

CONSTANTS
    MaxRows,        \* bound on the rows of dataset_score_jobs
    Requests,       \* POST requests, each served by a thread of its own
    MaxRecords,     \* bound on the size of the dataset
    Batch,          \* rows fetched at a time (5000 in the code)
    MaxFaults       \* bound on crashes and failing statements

ASSUME ScoreJobAssumption ==
    /\ MaxRows \in Nat
    /\ MaxRecords \in Nat
    /\ Batch \in Nat \ {0}
    /\ MaxFaults \in Nat

VARIABLES
    row,        \* dataset_score_jobs: job -> its row
    records,    \* number of telemetry records of the dataset
    scores,     \* record -> number of its rows in dataset_scores
    req,        \* request -> where its handler is, and the job it found
    worker,     \* job -> the local variables of the job's thread
    stop_flag,  \* job -> the flag registered under "score-" + job_id
    server,     \* "up", "down" or "boot" (before ReconcileStartup)
    faults

vars == <<row, records, scores, req, worker, stop_flag, server, faults>>

Jobs == 1..MaxRows        \* job_ids, in the order of insertion
Active == {"PENDING", "RUNNING"}
Terminal == {"COMPLETED", "FAILED", "CANCELLED"}
NoRow == [status |-> "NONE", total |-> 0, processed |-> 0, last |-> 0]
NoWorker == [pc |-> "none", total |-> 0, processed |-> 0, last |-> 0, n |-> 0]
NoRequest == [pc |-> "new", job |-> 0]

Count == 0..MaxRecords
WorkerPc == {"load", "count", "claim", "recheck", "announce", "model", "fetch",
             "insert", "advance", "end", "fail", "report"}
Live == {j \in Jobs : worker[j].pc \in WorkerPc}

TypeOK ==
    /\ row \in [Jobs -> [status : Active \cup Terminal \cup {"NONE"},
                         total : Count, processed : Count, last : Count]]
    /\ records \in Count
    /\ scores \in [1..MaxRecords -> Nat]
    /\ req \in [Requests -> [pc : {"new", "insert", "get", "start", "answered"},
                             job : Jobs \cup {0}]]
    /\ worker \in [Jobs -> [pc : WorkerPc \cup {"none", "done"}, total : Count,
                            processed : Count, last : Count, n : 0..Batch]]
    /\ stop_flag \in [Jobs -> BOOLEAN]
    /\ server \in {"up", "down", "boot"}
    /\ faults \in 0..MaxFaults

Init ==
    /\ row = [j \in Jobs |-> NoRow]
    /\ records \in Count
    /\ scores = [i \in 1..MaxRecords |-> 0]
    /\ req = [q \in Requests |-> NoRequest]
    /\ worker = [j \in Jobs |-> NoWorker]
    /\ stop_flag = [j \in Jobs |-> FALSE]
    /\ server = "up"
    /\ faults = 0

-----------------------------------------------------------------------------
(* DbClient *)

Executed == UNCHANGED faults
Failed == faults < MaxFaults /\ faults' = faults + 1

\* Writes status and progress whatever the row holds, and sets updated_at; a
\* failure is only logged.
UpdateScoreJob(j, s, total, processed, last) ==
    \/ /\ Executed
       /\ row' = [row EXCEPT ![j] = [status |-> s, total |-> total,
                                     processed |-> processed, last |-> last]]
    \/ Failed /\ UNCHANGED row

\* Faulty variant: only RUNNING rows are reconciled.
ReconcileRunningOnly(S) ==
    /\ Executed
    /\ row' = [j \in Jobs |-> IF j \in S /\ row[j].status = "RUNNING"
                              THEN [row[j] EXCEPT !.status = "FAILED"]
                              ELSE row[j]]

\* The rows of dataset_score_jobs that ReconcileStaleJobs changes, out of S.
ReconcileStaleJobs(S) ==
    LET hit == {j \in S : row[j].status \in Active}
    IN  \/ /\ Executed
           /\ row' = [j \in Jobs |-> IF j \in hit
                                     THEN [row[j] EXCEPT !.status = "FAILED"]
                                     ELSE row[j]]
        \/ Failed /\ UNCHANGED row

\* How many rows FetchScoringRowsAfterRecord(last, Batch) returns.
RowsAfter(last) == Min({Batch, records - last})

-----------------------------------------------------------------------------
(* POST /jobs/score_dataset *)

Answer(q) == req' = [req EXCEPT ![q] = [pc |-> "answered", job |-> 0]]

\* CreateScoreJob, first statement: is there a job that is PENDING or RUNNING?
CheckExists(q) ==
    /\ server = "up"
    /\ req[q].pc = "new"
    /\ \/ /\ Executed
          /\ LET existing == {j \in Jobs : row[j].status \in Active}
             IN  \/ /\ existing = {}
                    /\ req' = [req EXCEPT ![q].pc = "insert"]
                 \/ \E j \in existing : req' = [req EXCEPT ![q] = [pc |-> "get", job |-> j]]
       \/ Failed /\ Answer(q)
    /\ UNCHANGED <<row, records, scores, worker, stop_flag, server>>

\* CreateScoreJob, second statement and commit.  The transaction runs at the
\* default isolation level: what the first one read is not read again.
InsertJob(q) ==
    /\ req[q].pc = "insert"
    /\ \/ /\ Executed
          /\ \E j \in Jobs : /\ row[j] = NoRow /\ \A i \in 1..(j - 1) : row[i] # NoRow
                             /\ row' = [row EXCEPT ![j].status = "PENDING"]
                             /\ req' = [req EXCEPT ![q] = [pc |-> "get", job |-> j]]
       \/ Failed /\ Answer(q) /\ UNCHANGED row
    /\ UNCHANGED <<records, scores, worker, stop_flag, server>>

\* GetScoreJob: a job that is RUNNING or COMPLETED is reported with 200, an empty
\* result with 500; otherwise the job is started, whatever became of it meanwhile.
GetJob(q) ==
    /\ req[q].pc = "get"
    /\ \/ /\ Executed
          /\ IF row[req[q].job].status \in {"RUNNING", "COMPLETED"}
             THEN Answer(q) ELSE req' = [req EXCEPT ![q].pc = "start"]
       \/ Failed /\ Answer(q)
    /\ UNCHANGED <<row, records, scores, worker, stop_flag, server>>

\* StartJob("score-" + job_id) finds a free slot, and no thread of this job.
StartJob(q) ==
    LET j == req[q].job
    IN  /\ req[q].pc = "start"
        /\ j \notin Live
        /\ worker' = [worker EXCEPT ![j] = [NoWorker EXCEPT !.pc = "load"]]
        /\ stop_flag' = [stop_flag EXCEPT ![j] = FALSE]
        /\ Answer(q)
        /\ UNCHANGED <<row, records, scores, server, faults>>

\* Other jobs hold every slot: "Job queue full", 503.  The row stays PENDING.
StartJobRejected(q) ==
    /\ req[q].pc = "start"
    /\ Answer(q)
    /\ UNCHANGED <<row, records, scores, worker, stop_flag, server, faults>>

ProcessDies ==
    /\ server' = "down"
    /\ worker' = [j \in Jobs |-> NoWorker]
    /\ stop_flag' = [j \in Jobs |-> FALSE]
    /\ req' = [q \in Requests |-> IF req[q] = NoRequest THEN NoRequest
                                  ELSE [pc |-> "answered", job |-> 0]]
    /\ UNCHANGED <<row, records, scores>>

\* The job's thread is still running: StartJob assigns over a joinable
\* std::thread, which calls std::terminate.
StartJobTwice(q) ==
    /\ req[q].pc = "start"
    /\ req[q].job \in Live
    /\ Executed
    /\ ProcessDies

HandleScoreDatasetJob(q) ==
    \/ CheckExists(q)
    \/ InsertJob(q)
    \/ GetJob(q)
    \/ StartJob(q)
    \/ StartJobRejected(q)
    \/ StartJobTwice(q)

\* DELETE /jobs/:id hands the id of the URL to CancelJob, which knows the job as
\* "score-" + job_id: the job_id that the API gave out raises no flag.
DeleteJob(prefix, j) ==
    /\ server = "up"
    /\ stop_flag' = [stop_flag EXCEPT ![j] = @ \/ (prefix = "score-" /\ j \in Live)]
    /\ UNCHANGED <<row, records, scores, req, worker, server, faults>>

-----------------------------------------------------------------------------
(* The job *)

Goto(j, p) == worker' = [worker EXCEPT ![j].pc = p]
Leave(j, p) == worker' = [worker EXCEPT ![j] = [NoWorker EXCEPT !.pc = p]]
Local(j, p, total, processed, last) ==
    worker' = [worker EXCEPT ![j] = [pc |-> p, total |-> total,
                                     processed |-> processed, last |-> last, n |-> 0]]

Load(j) ==
    /\ worker[j].pc = "load"
    /\ \/ Executed /\ Local(j, "count", row[j].total, row[j].processed, row[j].last)
       \/ Failed /\ Leave(j, "fail")
    /\ UNCHANGED <<row, records, scores, req, stop_flag, server>>

\* GetDatasetRecordCount
CountRecords(j) ==
    /\ worker[j].pc = "count"
    /\ \/ Executed /\ worker' = [worker EXCEPT ![j].pc = "claim", ![j].total = records]
       \/ Failed /\ Leave(j, "fail")
    /\ UNCHANGED <<row, records, scores, req, stop_flag, server>>

\* TryTransitionScoreJobStatus(PENDING, RUNNING)
Claim(j) ==
    /\ worker[j].pc = "claim"
    /\ \/ /\ Executed
          /\ row[j].status = "PENDING"
          /\ row' = [row EXCEPT ![j].status = "RUNNING"]
          /\ Goto(j, "announce")
       \/ /\ (Executed /\ row[j].status # "PENDING") \/ Failed
          /\ Goto(j, "recheck")
          /\ UNCHANGED row
    /\ UNCHANGED <<records, scores, req, stop_flag, server>>

\* Faulty variant: a refused transition is ignored.
RecheckIgnored(j) ==
    /\ worker[j].pc = "recheck"
    /\ Executed /\ Goto(j, "announce")
    /\ UNCHANGED <<row, records, scores, req, stop_flag, server>>

Recheck(j) ==
    /\ worker[j].pc = "recheck"
    /\ \/ /\ Executed
          /\ IF row[j].status = "RUNNING" THEN Goto(j, "announce") ELSE Leave(j, "done")
       \/ Failed /\ Leave(j, "fail")
    /\ UNCHANGED <<row, records, scores, req, stop_flag, server>>

Announce(j) ==
    LET w == worker[j]
    IN  /\ w.pc = "announce"
        /\ UpdateScoreJob(j, "RUNNING", w.total, w.processed, w.last)
        /\ Goto(j, "model")
        /\ UNCHANGED <<records, scores, req, stop_flag, server>>

\* The model is found and loaded, or the attempt throws.
LoadModel(j) ==
    /\ worker[j].pc = "model"
    /\ \/ Goto(j, "fetch")
       \/ Leave(j, "fail")
    /\ UNCHANGED <<row, records, scores, req, stop_flag, server, faults>>

\* The head of the loop: stop, end of the data, or the next batch.
Fetch(j) ==
    LET w == worker[j]
    IN  /\ w.pc = "fetch"
        /\ \/ Executed /\ stop_flag[j] /\ Goto(j, "end")
           \/ /\ Executed /\ ~stop_flag[j]
              /\ IF RowsAfter(w.last) = 0 THEN Goto(j, "end")
                 ELSE worker' = [worker EXCEPT ![j].pc = "insert",
                                               ![j].n = RowsAfter(w.last)]
           \/ Failed /\ ~stop_flag[j] /\ Leave(j, "fail")
        /\ UNCHANGED <<row, records, scores, req, stop_flag, server>>

\* Faulty variant: the progress is recorded first, as when the insertion is
\* deferred.
InsertAfterAdvance(j) ==
    LET w == worker[j]
    IN  /\ w.pc = "insert"
        /\ UpdateScoreJob(j, "RUNNING", w.total, w.processed + w.n, w.last + w.n)
        /\ Goto(j, "advance")
        /\ UNCHANGED <<records, scores, req, stop_flag, server>>

\* Faulty variant: the vector of scores is not emptied between two batches.
InsertAgain(j) ==
    LET w == worker[j]
    IN  /\ w.pc = "insert"
        /\ Executed
        /\ scores' = [i \in 1..MaxRecords |->
                        scores[i] + (IF i \in 1..(w.last + w.n) THEN 1 ELSE 0)]
        /\ Goto(j, "advance")
        /\ UNCHANGED <<row, records, req, stop_flag, server>>

\* InsertDatasetScores adds the whole batch in a transaction of its own.
InsertScores(j) ==
    LET w == worker[j]
    IN  /\ w.pc = "insert"
        /\ \/ /\ Executed
              /\ scores' = [i \in 1..MaxRecords |->
                              scores[i] + (IF i \in (w.last + 1)..(w.last + w.n) THEN 1 ELSE 0)]
              /\ Goto(j, "advance")
           \/ Failed /\ Leave(j, "fail") /\ UNCHANGED scores
        /\ UNCHANGED <<row, records, req, stop_flag, server>>

Advance(j) ==
    LET w == worker[j]
    IN  /\ w.pc = "advance"
        /\ UpdateScoreJob(j, "RUNNING", w.total, w.processed + w.n, w.last + w.n)
        /\ Local(j, "fetch", w.total, w.processed + w.n, w.last + w.n)
        /\ UNCHANGED <<records, scores, req, stop_flag, server>>

\* Faulty variant: a stopped job is reported as completed.
EndAlwaysCompleted(j) ==
    LET w == worker[j]
    IN  /\ w.pc = "end"
        /\ UpdateScoreJob(j, "COMPLETED", w.total, w.processed, w.last)
        /\ Leave(j, "done")
        /\ UNCHANGED <<records, scores, req, stop_flag, server>>

\* The stop flag is looked at once more.
End(j) ==
    LET w == worker[j]
    IN  /\ w.pc = "end"
        /\ UpdateScoreJob(j, IF stop_flag[j] THEN "CANCELLED" ELSE "COMPLETED",
                          w.total, w.processed, w.last)
        /\ Leave(j, "done")
        /\ UNCHANGED <<records, scores, req, stop_flag, server>>

\* The catch block reads the row again; when that fails, value() throws out of it.
CatchRead(j) ==
    /\ worker[j].pc = "fail"
    /\ \/ Executed /\ Local(j, "report", row[j].total, row[j].processed, row[j].last)
       \/ Failed /\ Leave(j, "done")
    /\ UNCHANGED <<row, records, scores, req, stop_flag, server>>

CatchReport(j) ==
    LET w == worker[j]
    IN  /\ w.pc = "report"
        /\ UpdateScoreJob(j, "FAILED", w.total, w.processed, w.last)
        /\ Leave(j, "done")
        /\ UNCHANGED <<records, scores, req, stop_flag, server>>

ScoreDataset(j) ==
    \/ Load(j)
    \/ CountRecords(j)
    \/ Claim(j)
    \/ Recheck(j)
    \/ Announce(j)
    \/ LoadModel(j)
    \/ Fetch(j)
    \/ InsertScores(j)
    \/ Advance(j)
    \/ End(j)
    \/ CatchRead(j)
    \/ CatchReport(j)

-----------------------------------------------------------------------------
(* The generator, time, the reconciler and crashes *)

AppendRecord ==
    /\ records < MaxRecords
    /\ records' = records + 1
    /\ UNCHANGED <<row, scores, req, worker, stop_flag, server, faults>>

\* The periodic sweep finds rows whose updated_at is older than the TTL: rows that
\* no job owns, or whose job has been busy with a batch for that long.
RunSweep(S) ==
    /\ server = "up"
    /\ \A j \in S : row[j].status \in Active
    /\ ReconcileStaleJobs(S)
    /\ UNCHANGED <<records, scores, req, worker, stop_flag, server>>

Crash ==
    /\ server # "down"
    /\ Failed
    /\ ProcessDies

Restart ==
    /\ server = "down"
    /\ server' = "boot"
    /\ UNCHANGED <<row, records, scores, req, worker, stop_flag, faults>>

ReconcileStartup ==
    /\ server = "boot"
    /\ ReconcileStaleJobs(Jobs)
    /\ server' = "up"
    /\ UNCHANGED <<records, scores, req, worker, stop_flag>>

Next ==
    \/ \E q \in Requests : HandleScoreDatasetJob(q)
    \/ \E j \in Jobs : ScoreDataset(j) \/ \E p \in {"", "score-"} : DeleteJob(p, j)
    \/ AppendRecord
    \/ \E S \in SUBSET Jobs \ {{}} : RunSweep(S)
    \/ Crash
    \/ Restart
    \/ ReconcileStartup

\* Threads are scheduled; a row that no thread updates grows old and the sweeper,
\* which wakes up every minute, finds it.
Fairness ==
    /\ \A q \in Requests : WF_vars(req[q].pc # "new" /\ HandleScoreDatasetJob(q))
    /\ \A j \in Jobs : WF_vars(ScoreDataset(j)) /\ WF_vars(j \notin Live /\ RunSweep({j}))
    /\ WF_vars(ReconcileStartup)

Spec == Init /\ [][Next]_vars
FairSpec == Spec /\ Fairness

-----------------------------------------------------------------------------
(* Properties *)

\* What a row says about its progress is in dataset_scores: every record up to
\* last_record_id has a score, and processed_rows is their number.  Scores are
\* committed before the progress, so neither a crash between the two, nor a lost
\* update, nor a second job for the same dataset can put the progress ahead.
ProgressIsBacked ==
    \A j \in Jobs : /\ row[j].processed = row[j].last
                    /\ \A i \in 1..row[j].last : scores[i] > 0

\* A COMPLETED job has scored at least the records that it counted when it
\* started, whatever was appended, cancelled, swept or lost meanwhile.
CompletedIsComplete ==
    \A j \in Jobs : row[j].status = "COMPLETED" =>
        /\ row[j].total <= row[j].last
        /\ \A i \in 1..row[j].total : scores[i] > 0

\* A job scores a record at most once, however often it is requested, refused,
\* restarted or swept: nothing is scored more often than there are job rows.  It
\* takes two lost updates, of the progress and of the final status, and a second
\* start of the same job to score a batch again.
ScoredOncePerJob ==
    \A i \in 1..MaxRecords :
        scores[i] <= Cardinality({j \in Jobs : row[j] # NoRow}) + faults \div 2

StateMachine == INSTANCE JobStateMachine
    WITH Runs <- Jobs, state <- [j \in Jobs |-> row[j].status]

\* The status of a row moves only as JobStateMachine allows; in particular a terminal
\* status is final ("no further transitions allowed").
RowsFollowStateMachine == StateMachine!Spec

\* It is not final, but who departs from it and how is limited: only the job's own
\* live thread writes over a terminal status, UpdateScoreJob(RUNNING) revives nothing
\* but rows that were FAILED, a COMPLETED or CANCELLED job never runs again, and a
\* second, late start of it can at worst mark it FAILED, with its progress kept.
RevivedOnlyByItsJob ==
    [][\A j \in Jobs : row[j].status \in Terminal /\ row'[j] # row[j] =>
          /\ j \in Live
          /\ row[j].status # "FAILED" => row'[j] = [row[j] EXCEPT !.status = "FAILED"]]_vars

\* Every job row comes to a final rest: the dataset ends, rows orphaned by a full
\* queue, a failing statement, a crash or the std::terminate of a double start are
\* picked up by the reconciler, and a revived row is reported in the end (unless the
\* server stays down for ever).
EveryJobSettles ==
    []<>(server # "down") => <>[](\A j \in Jobs : row[j].status \notin Active)

\* What a row says of its progress and of its completion is true of the scores.
ProgressInv == TypeOK /\ ProgressIsBacked /\ CompletedIsComplete
=============================================================================

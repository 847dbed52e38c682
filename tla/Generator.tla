----------------------------- MODULE Generator -----------------------------
(***************************************************************************)
(* One generation run of src/generator.cpp: the job's thread (Run and then *)
(* ~Generator), the writer thread (WriterLoop), the bounded queue between  *)
(* them, and the run's row in generation_runs, which the reconciler of the *)
(* API server, another process, writes too.                                *)
(*                                                                         *)
(* Records are numbered in the order they are generated, so a batch, the   *)
(* archive table and what got lost are sets of numbers.  queue_mutex_ is   *)
(* held across steps only by a writer that has found its wait predicate    *)
(* false and is about to block ("parked"); the other critical sections are *)
(* single steps.  ~Generator does not take the mutex.                      *)
(***************************************************************************)
EXTENDS Integers, Sequences, FiniteSets, Functions

CONSTANTS
    Ticks,          \* timestamps between start and end
    Hosts,          \* hosts, each of which has one record per timestamp
    BatchSize,      \* BATCH_SIZE
    MaxQueueSize    \* max_queue_size_, from GENERATOR_WRITE_QUEUE_SIZE

ASSUME GeneratorAssumption ==
    /\ Ticks \in Nat
    /\ Hosts \in Nat \ {0}
    /\ BatchSize \in Nat \ {0}
    /\ MaxQueueSize \in Nat

VARIABLES
    pc,             \* where the job's thread is
    n,              \* records generated so far
    batch,          \* Run's local batch
    total_rows,     \* Run's local count
    stop_flag,
    write_queue,
    writer_running,
    writer,         \* where the writer thread is
    writing,        \* the batch the writer has taken from the queue
    archived,       \* records in host_telemetry_archival
    dropped,        \* records of batches dropped because the queue was full
    failed,         \* records of batches whose insert failed
    run_row         \* the row in generation_runs

job == <<pc, n, batch, total_rows>>
queue == <<write_queue, writer_running>>
thread == <<writer, writing>>
db == <<archived, failed, run_row>>
vars == <<job, stop_flag, queue, thread, dropped, db>>

Total == Ticks * Hosts
Records == 1..Total

RunPcs == {"create", "spawn", "setup", "tick", "record", "enqueue", "progress",
           "check", "final", "drain", "succeed", "cancel", "fail"}
DestructorPcs == {"destroy", "notify", "join"}

NoRow == [status |-> "NONE", inserted_rows |-> 0]

TypeOK ==
    /\ pc \in RunPcs \cup DestructorPcs \cup {"done"}
    /\ n \in 0..Total
    /\ batch \subseteq Records
    /\ Cardinality(batch) <= BatchSize
    /\ total_rows \in 0..Total
    /\ stop_flag \in BOOLEAN
    /\ write_queue \in Seq(SUBSET Records)
    /\ Len(write_queue) <= MaxQueueSize
    /\ writer_running \in BOOLEAN
    /\ writer \in {"none", "test", "acquire", "parked", "asleep", "insert", "exited"}
    /\ writing \subseteq Records
    /\ archived \subseteq Records
    /\ dropped \subseteq Records
    /\ failed \subseteq Records
    /\ run_row \in [status : {"NONE", "RUNNING", "SUCCEEDED", "CANCELLED", "FAILED"},
                    inserted_rows : 0..Total]

Init ==
    /\ pc = "create"
    /\ n = 0
    /\ batch = {}
    /\ total_rows = 0
    /\ stop_flag = FALSE
    /\ write_queue = << >>
    /\ writer_running = FALSE
    /\ writer = "none"
    /\ writing = {}
    /\ archived = {}
    /\ dropped = {}
    /\ failed = {}
    /\ run_row = NoRow

-----------------------------------------------------------------------------
(* Generator::Run *)

\* An UPDATE of the run's row: a failure is only logged, and without a row the
\* statement updates nothing.
UpdateRunStatus(s, rows) ==
    \/ run_row' = [status |-> s, inserted_rows |-> rows] /\ run_row # NoRow
    \/ UNCHANGED run_row

CreateRun ==
    /\ pc = "create"
    /\ pc' = "spawn"
    /\ run_row' \in {[NoRow EXCEPT !.status = "RUNNING"], NoRow}
    /\ UNCHANGED <<n, batch, total_rows, stop_flag, queue, thread, dropped,
                   archived, failed>>

StartWriter ==
    /\ pc = "spawn"
    /\ writer_running' = TRUE
    /\ \/ pc' = "setup" /\ writer' = "test"
       \/ pc' = "fail" /\ UNCHANGED writer      \* std::thread throws
    /\ UNCHANGED <<n, batch, total_rows, stop_flag, write_queue, writing, dropped, db>>

\* InitializeHosts and the time range; an allocation may throw.
Setup ==
    /\ pc = "setup"
    /\ pc' \in {"tick", "fail"}
    /\ UNCHANGED <<n, batch, total_rows, stop_flag, queue, thread, dropped, db>>

\* The head of the outer loop: the next timestamp and the first look at stop_flag_.
Tick ==
    /\ pc = "tick"
    /\ pc' = IF n = Total THEN "final" ELSE IF stop_flag THEN "cancel" ELSE "record"
    /\ UNCHANGED <<n, batch, total_rows, stop_flag, queue, thread, dropped, db>>

\* After record m: the next host, or the next timestamp.
NextRecord(m) == IF m % Hosts = 0 THEN "tick" ELSE "record"

GenerateRecord ==
    /\ pc = "record"
    /\ n' = n + 1
    /\ batch' = batch \cup {n'}
    /\ pc' = IF Cardinality(batch') >= BatchSize THEN "enqueue" ELSE NextRecord(n')
    /\ UNCHANGED <<total_rows, stop_flag, queue, thread, dropped, db>>

\* Faulty variant: the writer is not notified.
EnqueueBatchSilently(b) ==
    /\ writer # "parked"
    /\ \/ /\ Len(write_queue) >= MaxQueueSize
          /\ dropped' = dropped \cup b
          /\ UNCHANGED write_queue
       \/ /\ Len(write_queue) < MaxQueueSize
          /\ write_queue' = Append(write_queue, b)
          /\ UNCHANGED dropped
    /\ UNCHANGED <<writer_running, thread>>

EnqueueBatch(b) ==
    /\ writer # "parked"
    /\ \/ /\ Len(write_queue) >= MaxQueueSize
          /\ dropped' = dropped \cup b
          /\ UNCHANGED <<write_queue, writer>>
       \/ /\ Len(write_queue) < MaxQueueSize
          /\ write_queue' = Append(write_queue, b)
          /\ writer' = IF writer = "asleep" THEN "acquire" ELSE writer
          /\ UNCHANGED dropped
    /\ UNCHANGED <<writer_running, writing>>

\* Faulty variant: batch.clear() is missing.
EnqueueFullBatchKeepsIt ==
    /\ pc = "enqueue"
    /\ EnqueueBatch(batch)
    /\ total_rows' = total_rows + BatchSize
    /\ pc' = "progress"
    /\ UNCHANGED <<n, batch, stop_flag, db>>

\* A dropped batch counts in total_rows like any other.
EnqueueFullBatch ==
    /\ pc = "enqueue"
    /\ EnqueueBatch(batch)
    /\ batch' = {}
    /\ total_rows' = total_rows + BatchSize
    /\ pc' = "progress"
    /\ UNCHANGED <<n, stop_flag, db>>

ReportProgress ==
    /\ pc = "progress"
    /\ UpdateRunStatus("RUNNING", total_rows)
    /\ pc' = "check"
    /\ UNCHANGED <<n, batch, total_rows, stop_flag, queue, thread, dropped, archived, failed>>

CheckStop ==
    /\ pc = "check"
    /\ pc' = IF stop_flag THEN "cancel" ELSE NextRecord(n)
    /\ UNCHANGED <<n, batch, total_rows, stop_flag, queue, thread, dropped, db>>

\* Faulty variant: the rows of the last batch are not counted.
EnqueueFinalBatchUncounted ==
    /\ pc = "final"
    /\ \/ batch = {} /\ UNCHANGED <<batch, queue, thread, dropped>>
       \/ batch # {} /\ EnqueueBatch(batch) /\ batch' = {}
    /\ pc' = "drain"
    /\ UNCHANGED <<n, total_rows, stop_flag, db>>

EnqueueFinalBatch ==
    /\ pc = "final"
    /\ \/ batch = {} /\ UNCHANGED <<batch, total_rows, queue, thread, dropped>>
       \/ /\ batch # {}
          /\ total_rows' = total_rows + Cardinality(batch)
          /\ EnqueueBatch(batch)
          /\ batch' = {}
    /\ pc' = "drain"
    /\ UNCHANGED <<n, stop_flag, db>>

\* Faulty variant: the run does not wait for the writer.
DrainAtOnce ==
    /\ pc = "drain"
    /\ pc' = "succeed"
    /\ UNCHANGED <<n, batch, total_rows, stop_flag, queue, thread, dropped, db>>

\* Polls until the queue is empty.
Drain ==
    /\ pc = "drain"
    /\ writer # "parked"
    /\ write_queue = << >>
    /\ pc' = "succeed"
    /\ UNCHANGED <<n, batch, total_rows, stop_flag, queue, thread, dropped, db>>

\* The last update of the row, after which Run returns.
Report(at, s, rows) ==
    /\ pc = at
    /\ UpdateRunStatus(s, rows)
    /\ pc' = "destroy"
    /\ UNCHANGED <<n, batch, total_rows, stop_flag, queue, thread, dropped, archived, failed>>

ReportSucceeded == Report("succeed", "SUCCEEDED", total_rows)
ReportCancelled == Report("cancel", "CANCELLED", total_rows)
ReportFailed == Report("fail", "FAILED", 0)

-----------------------------------------------------------------------------
(* Generator::~Generator *)

Destroy ==
    /\ pc = "destroy"
    /\ writer_running' = FALSE
    /\ pc' = "notify"
    /\ UNCHANGED <<n, batch, total_rows, stop_flag, write_queue, thread, dropped, db>>

\* Faulty variant: nobody is notified.
NotifyNobody ==
    /\ pc = "notify"
    /\ pc' = "join"
    /\ UNCHANGED <<n, batch, total_rows, stop_flag, queue, thread, dropped, db>>

NotifyAll ==
    /\ pc = "notify"
    /\ writer' = IF writer = "asleep" THEN "acquire" ELSE writer
    /\ pc' = "join"
    /\ UNCHANGED <<n, batch, total_rows, stop_flag, queue, writing, dropped, db>>

Join ==
    /\ pc = "join"
    /\ writer \in {"none", "exited"}
    /\ pc' = "done"
    /\ UNCHANGED <<n, batch, total_rows, stop_flag, queue, thread, dropped, db>>

-----------------------------------------------------------------------------
(* Generator::WriterLoop *)

\* while (writer_running_)
WriterTest ==
    /\ writer = "test"
    /\ writer' = IF writer_running THEN "acquire" ELSE "exited"
    /\ UNCHANGED <<job, stop_flag, queue, writing, dropped, db>>

\* The wait predicate is false: the writer, holding the mutex, will block.
WriterPark ==
    /\ writer = "acquire"
    /\ write_queue = << >> /\ writer_running
    /\ writer' = "parked"
    /\ UNCHANGED <<job, stop_flag, queue, writing, dropped, db>>

WriterBlock ==
    /\ writer = "parked"
    /\ writer' = "asleep"
    /\ UNCHANGED <<job, stop_flag, queue, writing, dropped, db>>

SpuriousWakeup ==
    /\ writer = "asleep"
    /\ writer' = "acquire"
    /\ UNCHANGED <<job, stop_flag, queue, writing, dropped, db>>

WriterBreak ==
    /\ writer = "acquire"
    /\ write_queue = << >> /\ ~writer_running
    /\ writer' = "exited"
    /\ UNCHANGED <<job, stop_flag, queue, writing, dropped, db>>

WriterPop ==
    /\ writer = "acquire"
    /\ write_queue # << >>
    /\ writing' = Head(write_queue)
    /\ write_queue' = Tail(write_queue)
    /\ writer' = "insert"
    /\ UNCHANGED <<job, stop_flag, writer_running, dropped, db>>

\* BatchInsertTelemetry is one transaction; its exception is logged.
WriterInsert ==
    /\ writer = "insert"
    /\ \/ archived' = archived \cup writing /\ UNCHANGED failed
       \/ failed' = failed \cup writing /\ UNCHANGED archived
    /\ writing' = {}
    /\ writer' = "test"
    /\ UNCHANGED <<job, stop_flag, queue, dropped, run_row>>

-----------------------------------------------------------------------------

\* JobManager::CancelJob or Stop, from another thread.
RequestStop ==
    /\ ~stop_flag
    /\ pc # "done"
    /\ stop_flag' = TRUE
    /\ UNCHANGED <<job, queue, thread, dropped, db>>

\* Faulty variant: generation_runs is left out.
ReconcileOtherTables == FALSE /\ UNCHANGED vars

\* The API server starts, or its sweeper finds the row too old: a run that is RUNNING
\* becomes FAILED, whether or not this process is still working on it.
ReconcileStaleJobs ==
    /\ run_row.status = "RUNNING"
    /\ run_row' = [run_row EXCEPT !.status = "FAILED"]
    /\ UNCHANGED <<job, stop_flag, queue, thread, dropped, archived, failed>>

\* The generator process dies: the queue is lost, and the transaction of the writer
\* has been committed or not.
Crash ==
    /\ pc # "done"
    /\ pc' = "done"
    /\ writer' = "exited"
    /\ \/ archived' = archived \cup writing /\ UNCHANGED failed
       \/ failed' = failed \cup writing /\ UNCHANGED archived
    /\ writing' = {}
    /\ dropped' = dropped \cup UNION Range(write_queue)
    /\ write_queue' = << >>
    /\ UNCHANGED <<n, batch, total_rows, stop_flag, writer_running, run_row>>

Run ==
    \/ CreateRun
    \/ StartWriter
    \/ Setup
    \/ Tick
    \/ GenerateRecord
    \/ EnqueueFullBatch
    \/ ReportProgress
    \/ CheckStop
    \/ EnqueueFinalBatch
    \/ Drain
    \/ ReportSucceeded
    \/ ReportCancelled
    \/ ReportFailed

Destructor == Destroy \/ NotifyAll \/ Join

WriterLoop ==
    \/ WriterTest
    \/ WriterPark
    \/ WriterBlock
    \/ WriterBreak
    \/ WriterPop
    \/ WriterInsert

Finished == pc = "done" /\ UNCHANGED vars

Next ==
    \/ Run
    \/ Destructor
    \/ WriterLoop
    \/ SpuriousWakeup
    \/ RequestStop
    \/ ReconcileStaleJobs
    \/ Crash
    \/ Finished

\* Both threads are scheduled and get queue_mutex_ when they keep trying; no
\* spurious wakeup and no stop request is promised.  A row that Run does not update any
\* more grows old and is found by the sweeper, if the API server is running.
Fairness ==
    /\ SF_vars(Run)
    /\ WF_vars(Destructor)
    /\ WF_vars(WriterLoop)
    /\ WF_vars(pc \notin RunPcs /\ ReconcileStaleJobs)

Spec == Init /\ [][Next]_vars
FairSpec == Spec /\ Fairness

-----------------------------------------------------------------------------
(* Properties *)

Places == <<batch, writing, archived, dropped, failed>> \o write_queue

\* Every generated record is in exactly one place: Run's batch, one queued batch,
\* the writer's batch, the table, or among the dropped or failed ones.  No
\* interleaving of EnqueueBatch and WriterLoop loses or duplicates a record.
RecordsAccounted ==
    /\ 1..n = UNION {Places[i] : i \in DOMAIN Places}
    /\ \A i, j \in DOMAIN Places : i # j => Places[i] \cap Places[j] = {}

\* The inserted_rows of a run that succeeded or was cancelled are the records that
\* left Run's hands: in the table, still queued or being written, or lost with a
\* dropped or failed batch.  A run that failed, or was declared failed while it went
\* on, never claims more than that.
ReportedRowsAddUp ==
    LET enqueued == Cardinality((1..n) \ batch)
    IN  /\ run_row.inserted_rows <= enqueued
        /\ run_row.status \in {"SUCCEEDED", "CANCELLED"} => run_row.inserted_rows = enqueued

\* Once the Generator is gone, the inserted_rows of a run that is shown as
\* SUCCEEDED are the rows in the table plus the rows of dropped and failed
\* batches; nothing was left in the queue for ~Generator to throw away.
SucceededRowsAddUp ==
    pc = "done" /\ run_row.status = "SUCCEEDED" =>
        /\ write_queue = << >>
        /\ run_row.inserted_rows = Total
        /\ Total = Cardinality(archived) + Cardinality(dropped) + Cardinality(failed)

\* Run returns: the queue is drained, whatever is generated and dropped.
RunReturns == <>(pc \in DestructorPcs \cup {"done"})

\* A run does not stay RUNNING: not when its last report is lost or its process dies,
\* and not when the reconciler fails the row of a run that is alive, whose next report
\* of progress sets it to RUNNING again.
RowSettles == <>[](run_row.status # "RUNNING")

\* "Wait for writer to finish before marking SUCCEEDED": when the row says
\* SUCCEEDED, the writer has no batch left, neither queued nor in its hands.
SucceededAfterWriter ==
    run_row.status = "SUCCEEDED" => write_queue = << >> /\ writing = {}

\* ~Generator joins the writer and returns, unless its notification falls between
\* the writer's evaluation of the wait predicate and its blocking: writer_running_ is
\* cleared without queue_mutex_, and that writer would sleep for ever.
DestructorReturnsUnlessParked == pc = "notify" /\ writer # "parked" ~> pc = "done"

\* What the row reports adds up at all times, and with the table once all is over.
RunRowInv == TypeOK /\ ReportedRowsAddUp /\ SucceededRowsAddUp

\* The job ends: Run drains the queue and returns, then the destructor returns unless
\* its notification is lost.
GeneratorEnds == RunReturns /\ DestructorReturnsUnlessParked
=============================================================================

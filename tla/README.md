# A TLA+ model of telemetry-systems-lab

This directory holds a specification of the concurrent and stateful parts of the
C++ programs in `src/src/`, TLC configurations that check it on small instances,
and TLAPS proofs of the properties that matter most. `PROJECT.json` lists the runs,
the correspondence of definitions and source lines, the hazards and the findings.

## 1. The system

Two server processes share one PostgreSQL database; a third program works alone.

* The **generator** (`server.cpp`, `generator.cpp`) answers gRPC requests by starting
  a job that produces synthetic telemetry records and writes them to
  `host_telemetry_archival` through a bounded queue and a writer thread.
* The **API server** (`api_server.cpp`) answers HTTP requests, forwards generation
  requests, trains PCA models, tunes hyperparameters, scores datasets, and runs queries.
* The **scorer** (`scorer_main.cpp`) passes a simulated stream of records through two
  detectors and raises alerts.

| Part | State | Operations | What is hard about it |
|---|---|---|---|
| `JobManager` | `jobs_`, `stop_flags_`, `threads_`, `current_jobs_`, `max_jobs_`, `stopping_` | `StartJob`, the job wrapper, `CancelJob`, `Stop`, `SetMaxConcurrentJobs` | joining threads under the mutex, starts racing `Stop`, reuse of ids |
| Connection pool | `pool_`, `in_use_count_`, waiters | `GetConnection`, `ReleaseConnection` | timed waits, nested acquisition, broken connections, failing connects |
| Training run | `model_runs` row, artifact file, job | `POST /train`, `RunPcaTraining`, `DELETE /train` | check-then-write on the row, lost statements, crashes |
| Tuning run | parent and trial rows, orchestrator job | `OrchestrateTuning`, `DELETE /train`, aggregation | jobs that start jobs, partial failure, cancellation |
| Scoring job | `dataset_score_jobs` row, `dataset_scores` | `POST /jobs/score_dataset`, its job, `DELETE /jobs` | resumption, duplicate starts, unguarded updates |
| `JobReconciler` | sweeper thread; acts on rows | `ReconcileStartup`, `RunSweep` | sweeps rows whose job is alive |
| `JobStateMachine` | none (pure) | `IsTransitionAllowed`, `IsTerminal` | nothing calls it: it is a specification |
| `PcaModelCache` | `cache_`, `current_bytes_` | `GetOrCreate`, `Invalidate`, `Clear` | unlocks while loading |
| Generator run | `write_queue_`, `writer_running_`, writer thread, `generation_runs` row | `Run`, `EnqueueBatch`, `WriterLoop`, destructor | full queue, waiting for the writer, shutdown without the mutex, a reconciler in another process |
| Dataset reads | none of their own (`inference_runs` for inference) | samples, topk, histogram, summary, timeseries, scores, eval, training passes, inference | several statements over tables that grow, boundaries |
| `DetectorA` | sliding window, robust statistics | `Update` | warm-up, poison mitigation |
| `AlertManager` | per-host counter and last alert | `Evaluate` | hysteresis with cooldown |
| Scorer | per-host detectors, gate | the loop | triggered and scheduled evaluation |

How they meet: every training, tuning, scoring and generation run is a job of a
`JobManager`; every job and request uses the connection pool through `DbClient`;
`DbClient` swallows most database errors, so callers go on after a lost write; the
reconciler rewrites rows that jobs, also those of the generator process, are working
on; inference requests and scoring jobs share the model cache; queries, trainings and
scoring read datasets that the generator is still writing.

## 2. Modules

Each component has a module, and a module `MC...` that TLC runs; the modules `...Proofs`
hold the theorems, and `DataLemmas` the facts about sums, counts, orders and divisions that
they share. A proof module may hold the proofs of two components that have nothing to do with
each other, in sections of their own; the definitions of one of the two then carry a prefix
(`PoolSpec`, `CacheSpec`, `RunSpec`). "Faulty variant" operators next to a definition are what
it would be with a plausible mistake in it; no specification uses them. They
document which mistake each property is able to notice.

| Module | Models | Steps |
|---|---|---|
| `JobManager` | `job_manager.*` | a critical section is a step; `StartJob` is several, because it joins threads with `mutex_` held; the wrapper and `Stop` are threads of their own |
| `DbConnectionPool` | `db_connection_manager.*` | a critical section is a step, except that connecting is two; the timed wait has states asleep, awake, expired |
| `JobStateMachine` | `job_state_machine.*` | the abstract specification of a status column, and the weaker `UntilTerminal` |
| `ModelRun` | training runs in `api_server.cpp`, the writes of `db_client.cpp`, `job_reconciler.cpp`, `WriteArtifactJson` | one database statement is one step |
| `Tuning`, with `HpoConfig` | `OrchestrateTuning`, the trials and `DELETE`; validation, preflight, candidates and fingerprint as functions | one database statement is one step |
| `TrialSummary` | best trial and aggregate status of `GET /models` and `GET /models/:id` | functions |
| `TuningReports`, over `Tuning` and `TrialSummary` | what a client is told about a tuning run, for given sets of configurations and trials | none of its own |
| `Sorting` | `ORDER BY`, `std::sort` and `std::nth_element`, with ties in any order | functions |
| `ScoreJob` | `HandleScoreDatasetJob`, its job, `DELETE /jobs`, the statements on score jobs and scores | one database statement is one step |
| `PcaModelCache` | `pca_model_cache.*` | `GetOrCreate` is two steps, around the load |
| `Generator` | `generator.*` and its row | a critical section, a database statement, or an access to an atomic is a step |
| `DatasetReads`, over `DatasetQueries` | the reading handlers, the passes of `TrainPcaFromStream` with `TelemetryBatchIterator`, `POST /inference`; the queries as functions of a table | one database statement is one step |
| `Scorer`, over `DetectorA` and `AlertManager` | `scorer_main.cpp` and the two classes | one record is one step |

Data are abstract: jobs, connections, models and runs are model values, a training
either returns or throws, records are numbers. Metrics, log lines, messages and formats
are left out.

Details worth knowing when reading the modules against the code:

* `JobManager`: a thread identity stands for the `std::thread` together with its stop
  flag. `Threads` bounds the number of starts. Phase `stillborn` is a thread whose
  constructor threw: its slot stays taken, as in the code. `MayRestartRunning` allows
  callers to start an id whose job is still running; with it the process can
  terminate, so the properties are stated for callers that do not do it. `ScoreJob`
  models the one caller that may: there a double start takes the server down.
* `DbConnectionPool`: `MaxHeld` is the nesting depth of one thread. It is two in the
  program: `GetScores` and `GetEvalMetrics` call `GetModelRun` while they hold a
  connection. The pool's destructor is not modelled.
* `ModelRun`: `stale` stands for an `updated_at` older than the TTL. `Lost` is a
  statement that failed and was only logged. `MaxFaults` bounds those, the crashes and
  the writes of `WriteArtifactJson` that stop short, which it does not notice.
* `Tuning`: run 0 is the parent. Which other jobs hold slots is left open, so any
  `StartJob` may be refused. `DELETE` of a parent cancels `"train-" + id`, while the
  orchestrator runs as `"tuning-" + id` and is not reached. Nothing ever sets the parent
  to COMPLETED: the row stays RUNNING until the reconciler fails it, and `GET` shows the
  aggregate instead. `DELETE` is modelled call by call: between raising the stop flag of a
  job and writing its row, the job may end and write the row itself.
* `ScoreJob`: one dataset and one model. A second row can exist because the test for
  an existing job and the insertion are not serialised. The row's status updates have no
  guard, so a row that was swept comes back to life with its next batch (finding 3).
* `PcaModelCache`: evictions of one insertion are one step, since they happen in one
  critical section; entries of equal age go in any order.
* `Generator`: `queue_mutex_` is held between steps only by a writer that is about to
  block. This is the window in which the destructor's notification is lost.
  `ReconcileStaleJobs` belongs to the other process and may happen at any time; the next
  report of progress sets the row to RUNNING again.
* `DatasetReads`: one request at a time, as requests share only tables they do not
  change. Where SQL leaves the order of equal rows open, the queries yield a set of
  answers. The reconstruction error of a record is its value. Values are integers, in
  units of which `Precision` make the sixth decimal: `to_string` rounds the bounds of a
  histogram to that, as the text of the query does, while the edges in the answer come
  from the bounds themselves. `BucketsRejected` is what the database refuses then. The
  rank of a percentile is a product of doubles; where it is a whole number the model also
  allows the position after it (55 % of 100 values gives the 56th). Apart from these two,
  arithmetic on doubles is taken to be exact. `k` and the number of bins are any integers:
  `k = -1` is `LIMIT 0` and answers with an empty list that does not call itself truncated,
  below that the statement fails; `k + 1` beyond an `int` is left out.
* `Scorer`: one integer metric, a free stream of values and free verdicts of Detector B.
  Nothing in the code makes `min_history` a multiple of `recompute_interval`: the defaults
  are, the unit test uses 5 and 2. Where it is not, the records between the end of the
  warm-up and the next tick are scored against a median and MAD of zero, and
  `ScoredWithStats` says that it is only those.
* `HpoConfig`: the fingerprint is the text that is hashed, so what is said of it holds up to
  collisions of `std::hash`.
* `Generator`: the timestamps of a run are a finite number. A negative `interval_seconds`,
  which only the gRPC interface would let through, makes the loop run on without end;
  `GeneratorEnds` is not about such requests.
* `MCSharedObjects`: the pool and the cache in one instance. A behaviour drives one of the
  two and leaves the other alone, as no call touches both.

## 3. What the runs check

| Run | Instance | Shows |
|---|---|---|
| `job_manager` | 2 ids, 3 starts, limit 2 that may drop to 1, 2 callers of `Stop`, failing spawns | slot accounting, status and flag belong to the right thread, `Stop` joins everything and returns, no `std::terminate`, `StartJob` gives the mutex back |
| `shared_objects` | pool of 2 with 2 clients nesting twice and 3 connection identities: the circular wait occurs; cache with 2 callers, 3 models, 3 sizes of which one exceeds it | pool: exact count, usable idle connections, the bound, honest timeouts, every call ends; cache: limits hold, the counter errs only upwards and only when an entry is replaced |
| `pool_wakeup` | 2 clients, pool of 1 | **finding**: nobody is notified when a broken connection is dropped |
| `model_run` | 2 runs, 1 slot, 1 DELETE at a time, 2 faults | completed runs have artifacts, ended jobs leave terminal rows, the row implements `JobStateMachine` up to its first terminal status, only two kinds of race overwrite that one, every run ends |
| `model_run_terminal` | 1 run, 1 DELETE, no fault | **finding**: a terminal status is overwritten |
| `tuning` | a grid of 2 x 2 cut to 2 trials, one at a time, 1 fault; the functions over all small configurations and lists of trials | concurrency limit, trials that can be selected have a metric, nothing that ended or was cancelled runs again, the orchestrator returns, every row ends; candidates as announced, summaries as defined |
| `score_job` | 2 requests, 2 rows, 2 records in batches of up to 2, 2 faults | progress and completion are backed by scores, no more scores than job rows (unless two updates are lost), only its own job changes a row that has ended, every row comes to rest |
| `score_job_terminal` | 1 request, 1 record, no fault; the row of a live job is swept only while the job scores and inserts a batch | **finding**: a score job that was failed is RUNNING again |
| `generator` | 4 timestamps of 2 hosts, batches of 3, queue of 1 | records and reported rows add up, `Run` and the destructor return, the row does not stay RUNNING although another process writes it and this one may die |
| `generator_drain` | 2 records of one host, 1 batch | **finding**: SUCCEEDED before the rows are stored |
| `dataset_reads` | 3 datasets of 5 records of 2 hosts, pages of 1 and 2, `k` from -2 to 2, -1 to 4 bins of which 3 are allowed, ranges with and without digits to lose, 1 failing statement | pages list everything once, aggregates are exact for what their statements saw, a training reads prefixes and its threshold is the percentile, inference rows tell the truth |
| `scorer` | 2 hosts of which one is in the shard, 8 seconds, 4 values, window of 4, history of 2 and interval of 3 | alerts are justified and in time, the gate lets through what it must, Detector A's sums are right and its statistics late by less than an interval |

Some properties are conjunctions of parts with names of their own (`RunRowInv`,
`TrialsInv`, `AggregatesExact` and so on); each part has its comment. The type invariants
are parts of such properties, except those that are proved (section 4).

The bounds are the smallest at which the cases meet. Three starts over two ids reuse
an id while another job runs. A pool of two with two nesting clients has the circular
wait. Two runs with one slot make one submission fail, and two faults make a crash follow
a lost write or a failed startup reconciliation. Two trials, one at a time, make the
second one wait for the first one's row. Two requests for one dataset produce two rows, or
two starts of one row; two records make a batch that is full and one that is not. Eight
records in batches of three fill a queue of one, drop a batch and leave a partial one. A
cache of two entries and six bytes evicts for either reason. Five records of two hosts at
200 s share timestamps, fall on and between bucket limits and leave a partial page; with four
units to the sixth decimal, bounds are rounded up, down and from the middle, and two of them
become equal. Eight
seconds hold two cooldowns of three, two periods, and a window that slides.

`MaxTime` and `MaxCounter` (cache), `MaxTime` (scorer), `MaxRows` and `MaxRecords` (scoring)
and `MaxFaults` are guards of the model; `MaxCounter` leaves the drift room for several
double insertions. `SweptWhileBusy` restricts `score_job_terminal` to
the sweep that needs no second request and no fault, so that its trace is the plain one.

`CHECK_DEADLOCK FALSE` appears with `ModelRun`, `Tuning`, `ScoreJob` (a server whose jobs
have ended is idle) and `Scorer` (the stream ends). The others end in states that repeat.

### Fairness

* `JobManager`: weak fairness of each thread's steps and of `Stop`; work functions are
  assumed to end, as `Stop` joins them without a timeout.
* `DbConnectionPool`: a deadline passes (`wait_for` has a fixed one, and a spurious
  wake-up does not extend it) and a mutex that keeps becoming free is acquired; both are
  strong fairness. Nothing is assumed of clients that hold connections: they need not
  release them.
* `ModelRun`, `Tuning`, `ScoreJob`: threads run, training ends, requests that were begun
  are finished, the sweeper runs every minute and in the end finds rows that no thread
  updates. Nothing restarts a dead server (the compose files set no restart policy), so
  `Restart` has no fairness and the liveness properties carry the premise that the server
  is not down for ever. New requests and faults are not promised. `OrchestratorReturns`
  says that the orchestrator is again and again not running: as it is started only once,
  this means that it returns.
* `Generator`: the two threads run, and `Run`, which polls the queue every 100 ms, gets
  the mutex if it is free again and again. Spurious wake-ups and stop requests are not
  promised. `RowSettles` assumes that the API server's sweeper runs, and uses it only once
  `Run` has returned or its process has died.

## 4. What is proved

TLAPS proves the following for all values of the constants.

* `JobProofs`, on `JobManager`: the properties of the run that are not liveness, and that a job is
  started only while fewer than `max_jobs_` hold a slot (`StartsWithinLimit`). Assumptions:
  `ConstantsAssumption`, that is, markers distinct from threads and ids and limits in `Nat`
  (the sets may be infinite), and that no running id is started again
  (`~MayRestartRunning`). `SlotAccounting` alone is not inductive: that a wrapper's decrement
  belongs to a slot needs the phases (`SlotInv`); that no thread is overwritten needs that a
  thread in `threads_` whose status is not RUNNING has been joined by the cleanup before
  the registration (`StartingInv`, `MapInv`); that `Stop` leaves none behind needs where
  every unjoined thread is kept (`JoinInv`, `StopInv`). Each action's step is one lemma.
* `ScorerProofs`, on `DbConnectionPool`: everything but liveness. The invariant adds
  to the properties who is connecting (`CreatingInv`), that broken connections are lent
  ones (`BrokenInv`), and the count of idle, lent and nascent connections (`CountInv`):
  the code compares only `in_use_count_` with `pool_size_`, and the bound on all
  connections follows only because a new one is opened when none is idle.
* `JobProofs`, on `ModelRun`: everything but `EveryRunEnds`, for any number of runs, DELETE
  requests and faults. That a completed run has its artifact needs what the disk holds at each
  position of the job (`ArtifactInv`); that no job ends without a terminal row needs which
  rows a position allows as long as nothing was lost (`RowInv`, `ReportInv`).
  `RefinesUntilTerminal` is the refinement: initial states map to initial states, and every
  step is a step of `JobStateMachine` or leaves a status terminal.
* `GeneratorProofs`, on `PcaModelCache`: `CacheInv` and `DriftOnlyByOverwrite` for any
  callers, models, sizes and limits (`CacheAssumption`). `CacheInv` is inductive together
  with the finiteness of the cache. The work is in the bytes, a sum over the entries: lemmas
  on such sums (a part and the rest, one entry more or less, a changed entry) and one on an
  eviction that removes several entries at once.
* `ScorerProofs`, on `Scorer`: the alert and gate properties for any stream of values, any
  verdicts of Detector B, any shard, hysteresis, cooldown and period. The history `trail` is
  tied to the state of the program: the time of the last alert is that of the last entry
  with one (`LastAlertInv`), the counter is the number of anomalies at the end of the trail
  since then (`CounterInv`), and the gate's timestamp is that of the last evaluation
  (`GateInv`). `WindowsHold` is about Detector A: the sums that `UpdateMetric` keeps by
  adding what enters and subtracting what leaves are those of the window (`MetricInv`, on
  lemmas about the sum of a sequence), and a value is scored without statistics only before
  the first tick after the warm-up. The latter needs that the update counter follows the
  number of records of the host, that until the warm-up ends the window holds all of them,
  and that no tick has passed since as long as nothing was computed (`WarmupInv`). No
  relation of `MinHistory` to `RecomputeInterval` is assumed.
* `ScoreJobProofs`: `ProgressInv` and `RevivedOnlyByItsJob` for any number of requests,
  rows, records and faults and any batch size (`ScoreJobAssumption`: bounds in `Nat`, a
  batch is not empty). What a row says is written from the locals of a thread, so the
  invariant (`JobOK`) says of them what the properties say of rows: `LocalsOK` has the
  progress of each position backed by scores, also for the batch that is inserted but not
  yet recorded; `OwnerOK` has the row neither COMPLETED nor CANCELLED while its thread is
  scoring. That other jobs add scores, and the generator records, does no harm (`Monotone`).
  `ScoredOnce` is proved with an account kept for every record (`Account`): each job row is
  credit for one score, and two faults are credit for another. The account charges two for
  each score, one for each job that may yet score the record (`MayScore`), and one for each
  job that may or whose thread has scored it without the row knowing (`Owes`). Every step is
  shown to keep it balanced: a score takes the place of both charges of its job, a lost
  progress update is a fault that pays for one of them again, and only a second loss, of the
  final status, pays for the other and lets the job score again. TLC checked this invariant
  on a small instance before it was proved.
* `TuningProofs`: `TrialsInv` and `TrialsStayEnded` for every `hpo_config` that
  `ValidateHpoConfig` accepts (`TuningAssumption`) and any number of faults. Counting RUNNING
  rows is not inductive: a trial that was started but has not claimed its row will be
  RUNNING as well. `ConcurrencyInv` bounds both (`MayRun`), which are all in
  `active_trials` while the orchestrator loops. That needs the order in which rows are
  inserted and jobs started (`RowsInv`, `JobsInv`). What DELETE has dealt with is terminal as
  long as nothing failed (`DeleteInv`), and terminal rows stay so (`StatusMoves`).
  The other theorems are about the functions, for all arguments. The preflight check announces
  the number of trials that are generated (`PreflightHolds`); an uncut grid has exactly the pairs
  of the search space (`GridIsComplete`, by the uniqueness of quotient and remainder); grids with
  the same fingerprint have the same candidates (`FingerprintIsFaithful`: sorting keeps the set
  of the values, so equal sorted spaces come from equal sets); the best trial is the least one
  (`BestIsLeast`, by induction over the rounds of the loop); and list and detail show the same
  status (`ListIsDetail`: after any number of rows in any order, the counts of a parent are those
  of the rows seen, `Summed`, and every pair of parent and status has at most one row).
  `CandidatesHold` and `SummariesHold` conclude the two invariants of the run for all
  sets of configurations, trial lists, status lists and parents (`ReportsAssumption`).
* `GeneratorProofs`, on `Generator`: `RecordsAccounted` and `RunRowInv` for any number of hosts and
  timestamps, any batch size and queue size (`GeneratorAssumption`). `Spread` says without
  sequences of sets that every record is in one place; one lemma for each way a record moves
  shows that it is kept. That the reported rows add up needs what is in the batch at each
  position of `Run` (`PcInv`, `CountInv`), that only the last act of `Run` writes a final row
  (`RowInv`), and when the writer holds nothing (`WriterInv`).
* `DatasetQueriesProofs`: what the queries compute, for every table and every parameter, and how
  the rows that a request lists change while the dataset grows. A page
  holds the rows it should (`PageIs`); the value that `percentile_value` chooses reaches the rank
  and those below it do not pass it (`PercentileIs`, by counting the positions below it in the
  sorted list, for either position that the rounding may give); the groups that
  `TopK` leaves out are no larger than those it lists (`TopKIs`), and counts by type add up
  (`TypesAddUp`); a value is in the bin between whose edges it lies (`BucketBetweenEdges`, by
  reasoning on quotients), and printing the bounds moves an edge by at most half a sixth
  decimal (`EdgesMove`) and does not turn the range around (`PrintedInOrder`), so the counts
  lie between those of the bins drawn in and drawn out by that much, and the bins partition
  the printed range (`HistogramIs`); the ROC curve rises to all samples
  (`RocIs`: its positions rise to the last one, and a lower threshold reports more).
* `DatasetReadsProofs`: the four invariants of the run, for every dataset that satisfies
  `ReadsAssumption` (timestamps do not fall in the order of insertion, and those of one host
  rise, as the generator writes them), all parameters and any number of failing statements.
  A step either lets a table grow or is a step of the one request (`Steps`), so each kind of
  request has an invariant of its own, and growth must not disturb it. The
  aggregates say what the statements so far have seen (`TopKInv`, `HistogramInv`, `SummaryInv`,
  `SeriesInv`, `EvalInv`); where a second statement sees more than the first, the first is
  related to the prefix it saw. For a training, the current pass has read a prefix of the
  dataset in order, and the passes before it prefixes that do not shrink (`TrainInv`). For
  pages, the rows seen are those up to a position of the listing (`PagesInv`): rows that are
  inserted between two pages come last in ascending order and behind an anchor
  (`NewRowsLast`), and otherwise shift what was there only backwards, to pages not yet
  fetched (`PagedGrows`).

The type invariant of every component is proved as well.

Where a definition is recursive (the sums, the loops over trials and rows) induction is used in the
form that a nonempty set of naturals has a least element, with a set in place of the
predicate (`LeastElement`, `BoundedInduction`, `SetInduction`), because the library's induction
theorems take an operator that the provers cannot instantiate.

Sorting is specified, not computed: `SortBy` chooses one of the orders in which nothing follows
what it should precede (`Sorting`), and `DataLemmas` shows that such an order exists for every
finite set and how its positions relate to counts. The theorems hold for whichever is chosen.

Only model-checked: the liveness properties, as fairness and ENABLED are out of the prover's
reach. Every invariant and every action property of the passing runs has a theorem.

## 5. Findings

1. `db_connection_manager.cpp:95`: dropping a broken connection makes space but wakes
   nobody; waiters time out late. (`pool_wakeup`)
2. `api_server.cpp:465`, `db_client.cpp:540`: terminal statuses are overwritten, by
   DELETE after the job's report or by the job's report after DELETE. (`model_run_terminal`)
3. `api_server.cpp:1915`, `db_client.cpp:1568`: a score job that the reconciler has failed is
   set to RUNNING by the report of its next batch. `RevivedOnlyByItsJob` says how far such
   departures from `JobStateMachine` go. (`score_job_terminal`)
4. `generator.cpp:300`: an empty queue does not mean that the writer is done.
   (`generator_drain`)

Behaviour that contradicts no statement of the repository but is worth knowing; the
properties are stated so that they allow it:

* `pca_model_cache.cpp:72`: replacing an entry keeps the bytes of the old one in
  `current_bytes_`; only `Clear` repairs the counter.
* `generator.cpp:36`: the writer may miss the destructor's notification when it is about to
  block, and the destructor then waits for ever.
* `api_server.cpp:464`: DELETE of a tuning run does not reach its orchestrator, which goes on
  creating and starting trials.
* `api_server.cpp:1105`: a tuning run's own row is never set to COMPLETED; the reconciler
  fails it later.
* `api_server.cpp:1502`: a completed trial whose eligibility update was lost makes every GET
  of its tuning run fail.
* `db_client.cpp:760`: a CANCELLED trial is unknown to the bulk summaries, and cuts them short.
* `pca_trainer.cpp:446`: the fingerprint ignores the order of the search space, which decides
  the candidates once `max_trials` cuts the grid.
* `api_server.cpp:1863`: a second start of a score job that is running terminates the server.
* `api_server.cpp:1912`: when both the update of the progress and that of the final status
  are lost, a second start of the same score job scores a batch again.
* `db_client.cpp:1436`: a histogram over a range narrower than the sixth decimal fails, and
  range=minmax leaves out the largest record unless printing rounded its value up.
* `detector_a.cpp:43`: with a `min_history` that is no multiple of `recompute_interval`, the
  first values after the warm-up are scored against zeros.
* `scorer_main.cpp`: with a hysteresis of two or more and a period of more than one second,
  anomalies that only Detector B sees are never confirmed, as it is not asked often enough.
  The program uses a hysteresis of 1; the default of `AlertManager` is 2.
* `detector_a.cpp:64`: poison mitigation keeps a persistent shift of level out of the window,
  so Detector A never adapts to it.

## 6. Not modelled

* Floating-point numerics: PCA, covariance and eigenvectors, preprocessing, the
  distributions of generated values, and the aggregates built on them (means, percentiles
  of latencies, trends). TLC has no such numbers, and rounding is what matters there.
* SQL text and query plans, partitions and retention (`EnsurePartition`,
  `RunRetentionCleanup` and `DeleteDatasetWithScores` are called by none of the programs).
* HTTP and gRPC transport, parsing and formatting, logging and metrics: no state that
  outlives a request.
* GET /models/:id also stores the best trial and the error counts it has computed. Nothing
  but the next GET reads them, and it computes them again. `rerun_failed` rejects every
  request, since it tests a `type` that `GetModelRun` does not return.
* The stop of the sweeper's thread in `JobReconciler`: a lost notification delays it by at
  most one interval.
* The benchmark and the command-line tools, which are sequential, and the Flutter web UI.

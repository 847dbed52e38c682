---------------------------- MODULE DatasetReads ----------------------------
(***************************************************************************)
(* Reading a dataset that is still being generated and scored: the handlers*)
(* of the API that list, aggregate and evaluate it, the three passes of a  *)
(* training over it, and POST /inference.                                  *)
(*                                                                         *)
(* A handler sends several statements, each of which sees the tables as    *)
(* they are when it runs (the transactions keep the default isolation      *)
(* level), so every statement is a step.  Requests share nothing but the   *)
(* tables, which they do not change: one request at a time is enough.      *)
(* Nothing in the program deletes records, so the records a statement saw  *)
(* are a prefix of the dataset, and a length tells which.                  *)
(*                                                                         *)
(* The reconstruction error of a record is its value; dataset_scores has a *)
(* row for each of the first `scored' records.                             *)
(***************************************************************************)
EXTENDS DatasetQueries

CONSTANTS
    Datasets,       \* what the generator may insert
    Threshold,      \* of the model
    Limits,         \* page sizes
    Anchors,        \* values of anchor_time
    Ks,             \* values of k and topk
    Bins,           \* numbers of bins
    Ranges,         \* pairs of bounds of a histogram
    MaxBins,        \* MAX_BINS, 500 in the code
    Windows,        \* pairs of start and end times
    Percentiles,    \* in hundredths
    Batch,          \* rows per batch of a training
    MaxFaults       \* bound on failing statements

Record == [host_id : STRING, metric_timestamp : Nat, value : Int, anomaly_type : STRING]

ASSUME ReadsAssumption ==
    /\ Datasets \subseteq Seq(Record)
    /\ \A d \in Datasets : \A i, j \in DOMAIN d : i < j =>
          /\ d[i].metric_timestamp <= d[j].metric_timestamp
          /\ d[i].host_id = d[j].host_id => d[i].metric_timestamp < d[j].metric_timestamp
    /\ Threshold \in Int
    /\ Limits \subseteq Nat \ {0}
    /\ Anchors \subseteq Nat
    /\ Ks \subseteq Int
    /\ Bins \subseteq Int
    /\ Ranges \subseteq Int \X Int
    /\ MaxBins \in Nat \ {0}
    /\ Windows \subseteq (Nat \cup {None}) \X (Nat \cup {None})
    /\ Percentiles \subseteq 1..Whole
    /\ Batch \in Nat \ {0}
    /\ MaxFaults \in Nat

VARIABLES
    dataset,    \* the records of the run, the later ones still to come
    inserted,   \* how many are in host_telemetry_archival
    scored,     \* how many are in dataset_scores
    reader,     \* the request in progress: its parameters and local variables
    faults

vars == <<dataset, inserted, scored, reader, faults>>

Table(n) == SubSeq(dataset, 1, n)
Telemetry == Table(inserted)
Idle == [kind |-> "idle", pc |-> "idle"]

TypeOK ==
    /\ dataset \in Datasets
    /\ inserted \in 0..Len(dataset)
    /\ scored \in 0..inserted
    /\ reader.kind \in {"idle", "pages", "topk", "histogram", "summary", "series", "eval",
                        "train", "infer"}
    /\ faults \in 0..MaxFaults

Init ==
    /\ dataset \in Datasets
    /\ inserted = 0
    /\ scored = 0
    /\ reader = Idle
    /\ faults = 0

Executed == UNCHANGED faults
Failed == faults < MaxFaults /\ faults' = faults + 1

\* The generator's writer inserts in the order of the timestamps; the order of the
\* batches is kept, whatever their size.
InsertRecord ==
    /\ inserted < Len(dataset)
    /\ inserted' = inserted + 1
    /\ UNCHANGED <<dataset, scored, reader, faults>>

\* A scoring job goes through the records in the order of record_id.
InsertScore ==
    /\ scored < inserted
    /\ scored' = scored + 1
    /\ UNCHANGED <<dataset, inserted, reader, faults>>

Ask(request) == reader = Idle /\ Executed /\ reader' = request
Becomes(r) == Executed /\ reader' = r

\* DbClient throws, the handler answers 500.
Throws == Failed /\ reader' = [kind |-> reader.kind, pc |-> "error"]

-----------------------------------------------------------------------------
(* GET /datasets/:id/samples and GET /scores, page after page *)

AskSamples ==
    \E dir \in {"asc", "desc"}, host \in {""} \cup {dataset[i].host_id : i \in DOMAIN dataset},
       limit \in Limits, anchor \in {None} \cup Anchors :
        Ask([kind |-> "pages", pc |-> "items", from |-> "telemetry", dir |-> dir,
             filter |-> [NoFilter EXCEPT !.host_id = host,
                           !.start_time = IF dir = "asc" THEN anchor ELSE None,
                           !.end_time = IF dir = "desc" THEN anchor ELSE None],
             limit |-> limit, offset |-> 0, page |-> <<>>, seen |-> <<>>, first |-> 0])

AskScores ==
    \E limit \in Limits, only_anomalies \in BOOLEAN :
        Ask([kind |-> "pages", pc |-> "items", from |-> "scores", only_anomalies |-> only_anomalies,
             limit |-> limit, offset |-> 0, page |-> <<>>, seen |-> <<>>, first |-> 0])

\* The rows of the listing when its table holds n rows.
Listed(n) ==
    IF reader.from = "telemetry" THEN Matching(Table(n), reader.filter)
    ELSE {i \in 1..n : reader.only_anomalies => dataset[i].value > Threshold}
Held == IF reader.from = "telemetry" THEN inserted ELSE scored

\* ORDER BY metric_timestamp, or ORDER BY reconstruction_error DESC, score_id DESC
ListedBefore(i, j) ==
    LET s == dataset[i]
        t == dataset[j]
    IN  IF reader.from = "scores" THEN s.value > t.value \/ (s.value = t.value /\ i > j)
        ELSE IF reader.dir = "asc" THEN s.metric_timestamp < t.metric_timestamp
        ELSE s.metric_timestamp > t.metric_timestamp

\* First statement: the page.
PageItems ==
    /\ reader.kind = "pages" /\ reader.pc = "items"
    /\ \/ \E s \in Orderings(Listed(Held), ListedBefore) :
             Becomes([reader EXCEPT !.pc = "count",
                        !.page = Page(s, reader.limit, reader.offset),
                        !.first = IF reader.offset = 0 THEN Held ELSE @])
       \/ reader.from = "telemetry" /\ Throws
       \/ reader.from = "scores" /\ Failed /\ reader' = [reader EXCEPT !.pc = "partial"]
    /\ UNCHANGED <<dataset, inserted, scored>>

\* Second statement: the number of rows, and the answer.  GetScores swallows an
\* error: it answers 200 without has_more.  The client asks for the next page while
\* has_more is set, at the offset plus the limit (as the records browser does).
PageCount ==
    /\ reader.kind = "pages" /\ reader.pc = "count"
    /\ LET returned == Len(reader.page)
           more == HasMore(reader.limit, reader.offset, returned, Cardinality(Listed(Held)))
           seen == reader.seen \o reader.page
       IN  \/ Becomes([reader EXCEPT !.page = <<>>, !.seen = seen,
                         !.pc = IF more THEN "items" ELSE "done",
                         !.offset = IF more THEN @ + reader.limit ELSE @])
           \/ reader.from = "telemetry" /\ Throws
           \/ reader.from = "scores" /\ Failed /\ reader' = [reader EXCEPT !.pc = "partial"]
    /\ UNCHANGED <<dataset, inserted, scored>>

-----------------------------------------------------------------------------
(* GET /datasets/:id/topk, /histogram, /summary and /timeseries *)

AskTopK ==
    \E column \in {"host_id", "anomaly_type"}, k \in Ks, include_total \in BOOLEAN :
        Ask([kind |-> "topk", pc |-> IF include_total THEN "total" ELSE "groups",
             column |-> column, k |-> k, total_distinct |-> None])

TopKTotal ==
    /\ reader.kind = "topk" /\ reader.pc = "total"
    /\ \/ Becomes([reader EXCEPT !.pc = "groups",
            !.total_distinct = CountDistinct(Telemetry, DOMAIN Telemetry, reader.column)])
       \/ Throws
    /\ UNCHANGED <<dataset, inserted, scored>>

\* PostgreSQL rejects a negative LIMIT, which is k + 1.
TopKGroups ==
    /\ reader.kind = "topk" /\ reader.pc = "groups"
    /\ \/ \E answer \in TopK(Telemetry, DOMAIN Telemetry, reader.column, reader.k) :
             /\ reader.k >= -1
             /\ Becomes([kind |-> "topk", pc |-> "done", column |-> reader.column, k |-> reader.k,
                         total_distinct |-> reader.total_distinct, answer |-> answer, at |-> inserted])
       \/ reader.k < -1 /\ Becomes([kind |-> "topk", pc |-> "error"])
       \/ Throws
    /\ UNCHANGED <<dataset, inserted, scored>>

\* range=minmax asks for the empty range from 0 to 0.
AskHistogram ==
    \E bins \in Bins, range \in Ranges, type \in {"", "a"} :
        Ask([kind |-> "histogram", pc |-> "range", requested_bins |-> bins, range |-> range,
             filter |-> [NoFilter EXCEPT !.anomaly_type = type], counts |-> <<>>, at |-> 0])

\* The statement for the range is only sent when it is needed.  With no range the
\* histogram is empty.
HistogramFindRange ==
    /\ reader.kind = "histogram" /\ reader.pc = "range"
    /\ LET range == HistogramRange(Telemetry, reader.range[1], reader.range[2])
       IN  \/ Becomes([reader EXCEPT !.range = range, !.at = inserted,
                         !.pc = IF range[2] <= range[1] THEN "done" ELSE "counts"])
           \/ reader.range[2] <= reader.range[1] /\ Throws
    /\ UNCHANGED <<dataset, inserted, scored>>

\* The statement may be rejected, and no vector of counts has a negative size.
HistogramCounts ==
    /\ reader.kind = "histogram" /\ reader.pc = "counts"
    /\ LET bins == Min({reader.requested_bins, MaxBins})
           S == Matching(Telemetry, reader.filter)
           rejected == bins < 0 \/ BucketsRejected(S, reader.range[1], reader.range[2], bins)
       IN  \/ /\ ~rejected
              /\ Becomes([reader EXCEPT !.pc = "done", !.at = inserted,
                   !.counts = Histogram(Telemetry, S, reader.range[1], reader.range[2], bins)])
           \/ rejected /\ Becomes([kind |-> "histogram", pc |-> "error"])
           \/ Throws
    /\ UNCHANGED <<dataset, inserted, scored>>

AskSummary ==
    \E topk \in Ks :
        Ask([kind |-> "summary", pc |-> "rows", topk |-> topk, row_count |-> 0, anomalies |-> 0])

SummaryRows ==
    /\ reader.kind = "summary" /\ reader.pc = "rows"
    /\ \/ Becomes([reader EXCEPT !.pc = "types", !.row_count = inserted,
            !.anomalies = CountIn(DOMAIN Telemetry, LAMBDA i : IsAnomaly(Telemetry[i]))])
       \/ Throws
    /\ UNCHANGED <<dataset, inserted, scored>>

\* The types.  The statements after this one (distinct counts, latency, trend) do
\* not use what was read before.
SummaryTypes ==
    /\ reader.kind = "summary" /\ reader.pc = "types"
    /\ \/ \E types \in TypeCounts(Telemetry, reader.topk) :
             Becomes([kind |-> "summary", pc |-> "done", row_count |-> reader.row_count,
                      anomalies |-> reader.anomalies, types |-> types, at |-> inserted])
       \/ Throws
    /\ UNCHANGED <<dataset, inserted, scored>>

\* compare_mode=previous_period needs a window, otherwise the answer is 400.
AskTimeSeries ==
    \E window \in Windows, bucket \in {"1m", "auto"}, compare \in BOOLEAN :
        LET baseline == PreviousPeriodWindow(window[1], window[2])
        IN  /\ compare => baseline # {}
            /\ Ask([kind |-> "series", pc |-> "window", window |-> window,
                    baseline |-> IF compare THEN baseline ELSE {},
                    size |-> BucketSeconds(bucket, window[1], window[2])])

InWindow(T, w) == Matching(T, [NoFilter EXCEPT !.start_time = w[1], !.end_time = w[2]])

SeriesWindow ==
    /\ reader.kind = "series" /\ reader.pc = "window"
    /\ LET S == InWindow(Telemetry, reader.window)
       IN  \/ Becomes([kind |-> "series", pc |-> IF reader.baseline = {} THEN "done" ELSE "baseline",
                       window |-> reader.window, baseline |-> reader.baseline, size |-> reader.size,
                       items |-> GetTimeSeries(Telemetry, S, reader.size), at |-> inserted])
           \/ Throws
    /\ UNCHANGED <<dataset, inserted, scored>>

SeriesBaseline ==
    /\ reader.kind = "series" /\ reader.pc = "baseline"
    /\ \E w \in reader.baseline :
          LET S == InWindow(Telemetry, w)
          IN  \/ Becomes([kind |-> "series", pc |-> "compared", window |-> reader.window,
                          baseline |-> w, items |-> reader.items, at |-> reader.at,
                          before |-> GetTimeSeries(Telemetry, S, reader.size),
                          size |-> reader.size, then |-> inserted])
              \/ Throws
    /\ UNCHANGED <<dataset, inserted, scored>>

-----------------------------------------------------------------------------
(* GET /models/:id/eval *)

Sample(i) == [err |-> dataset[i].value, pred |-> dataset[i].value > Threshold,
              label |-> IsAnomaly(dataset[i])]

AskEval == \E max_samples \in {0, 2} :
    Ask([kind |-> "eval", pc |-> "scores", max_samples |-> max_samples])

\* The scores come in no particular order and are cut after max_samples.  An error
\* is swallowed: the answer is then empty.
EvalScores ==
    /\ reader.kind = "eval" /\ reader.pc = "scores"
    /\ \/ \E S \in SUBSET (1..scored) :
             LET samples == [i \in 1..Cardinality(S) |-> Sample(InSomeOrder(S)[i])]
             IN  /\ Cardinality(S) = IF reader.max_samples > 0
                                     THEN Min({reader.max_samples, scored}) ELSE scored
                 /\ Becomes([kind |-> "eval", pc |-> "done", samples |-> samples,
                             confusion |-> Confusion(samples), roc |-> Roc(samples, 0)])
       \/ Failed /\ reader' = [kind |-> "eval", pc |-> "partial"]
    /\ UNCHANGED <<dataset, inserted, scored>>

-----------------------------------------------------------------------------
(* TrainPcaFromDbBatched: three passes of TrainPcaFromStream over the dataset, for
   the statistics, the mean and the errors *)

StartTraining == \E p \in Percentiles :
    Ask([kind |-> "train", pc |-> "scan", percentile |-> p, pass |-> 1, last |-> 0,
         read |-> <<<<>>, <<>>, <<>>>>, start |-> inserted])

\* Faulty variant: the batch starts again at the last record of the one before.
NextBatchInclusive(last) ==
    IF last = inserted THEN <<>> ELSE [i \in 1..Min({Batch, inserted - last + 1}) |-> Max({1, last + i - 1})]

\* The records of the next batch: those after last_record_id_, at most Batch.
NextBatch(last) == [i \in 1..Min({Batch, inserted - last}) |-> last + i]

\* How many records a pass must have seen for the training to go on.
Enough(pass, n) == n >= IF pass = 1 THEN 2 ELSE 1

\* A pass ends with an empty batch; a failing statement looks the same.
EndPass ==
    LET r == reader
        n == Len(r.read[r.pass])
        errors == [i \in 1..Len(r.read[3]) |-> dataset[r.read[3][i]].value]
    IN  \/ ~Enough(r.pass, n) /\ reader' = [kind |-> "train", pc |-> "error"]
        \/ Enough(r.pass, n) /\ r.pass < 3 /\ reader' = [r EXCEPT !.pass = @ + 1, !.last = 0]
        \/ /\ Enough(r.pass, n) /\ r.pass = 3
           /\ \E threshold \in percentile_value(errors, r.percentile) :
                 reader' = [kind |-> "train", pc |-> "done", read |-> r.read, start |-> r.start,
                            percentile |-> r.percentile, threshold |-> threshold]

TrainBatch ==
    /\ reader.kind = "train" /\ reader.pc = "scan"
    /\ LET batch == NextBatch(reader.last)
       IN  \/ /\ batch # <<>>
              /\ Becomes([reader EXCEPT !.read[reader.pass] = @ \o batch, !.last = batch[Len(batch)]])
           \/ batch = <<>> /\ Executed /\ EndPass
           \/ Failed /\ EndPass
    /\ UNCHANGED <<dataset, inserted, scored>>

-----------------------------------------------------------------------------
(* POST /inference.  The row in inference_runs is kept with the request. *)

AskInference ==
    \E model \in {"missing", "no_artifact", "unreadable", "usable"},
       samples \in {"valid", "malformed", "too_many"} :
        Ask([kind |-> "infer", pc |-> "lookup", model |-> model, samples |-> samples,
             row |-> "none", scored |-> FALSE])

Reply(code) == [reader EXCEPT !.pc = code]

\* The checks before the run is recorded: at most 1000 samples, GetModelRun (which
\* swallows errors), the artifact, the cache.
InferLookup ==
    /\ reader.kind = "infer" /\ reader.pc = "lookup"
    /\ \/ Becomes(CASE reader.samples = "too_many" -> Reply("400")
                    [] reader.samples # "too_many" /\ reader.model = "missing" -> Reply("404")
                    [] reader.samples # "too_many" /\ reader.model = "no_artifact" -> Reply("400")
                    [] reader.samples # "too_many" /\ reader.model = "unreadable" -> Reply("500")
                    [] OTHER -> Reply("create"))
       \/ reader.samples # "too_many" /\ Failed /\ reader' = Reply("404")
    /\ UNCHANGED <<dataset, inserted, scored>>

\* CreateInferenceRun: the row is RUNNING from the start; an error throws.
InferCreate ==
    /\ reader.kind = "infer" /\ reader.pc = "create"
    /\ \/ Becomes([reader EXCEPT !.pc = "score", !.row = "RUNNING"])
       \/ Failed /\ reader' = Reply("500")
    /\ UNCHANGED <<dataset, inserted, scored>>

\* A sample that is no object throws, and nothing updates the row.
InferScore ==
    /\ reader.kind = "infer" /\ reader.pc = "score"
    /\ Becomes(IF reader.samples = "malformed" THEN Reply("500")
               ELSE [reader EXCEPT !.pc = "update", !.scored = TRUE])
    /\ UNCHANGED <<dataset, inserted, scored>>

\* Faulty variant: the handler forgets to update the row.
InferUpdateForgotten ==
    /\ reader.kind = "infer" /\ reader.pc = "update"
    /\ Becomes(Reply("200"))
    /\ UNCHANGED <<dataset, inserted, scored>>

\* UpdateInferenceRunStatus swallows errors.
InferUpdate ==
    /\ reader.kind = "infer" /\ reader.pc = "update"
    /\ \/ Becomes([Reply("200") EXCEPT !.row = "COMPLETED"])
       \/ Failed /\ reader' = Reply("200")
    /\ UNCHANGED <<dataset, inserted, scored>>

-----------------------------------------------------------------------------
Answered == reader.pc \in {"done", "compared", "partial", "error", "200", "400", "404", "500"}

Forget ==
    /\ Answered
    /\ Becomes(Idle)
    /\ UNCHANGED <<dataset, inserted, scored>>

Asks ==
    /\ \/ AskSamples \/ AskScores \/ AskTopK \/ AskHistogram \/ AskSummary
       \/ AskTimeSeries \/ AskEval \/ StartTraining \/ AskInference
    /\ UNCHANGED <<dataset, inserted, scored>>

Next ==
    \/ InsertRecord \/ InsertScore \/ Asks \/ PageItems \/ PageCount
    \/ TopKTotal \/ TopKGroups \/ HistogramFindRange \/ HistogramCounts
    \/ SummaryRows \/ SummaryTypes \/ SeriesWindow \/ SeriesBaseline \/ EvalScores
    \/ TrainBatch \/ InferLookup \/ InferCreate \/ InferScore \/ InferUpdate \/ Forget

Spec == Init /\ [][Next]_vars

-----------------------------------------------------------------------------
(* Properties *)

\* Rows of one host, and scores, are listed in an order without ties.
Unambiguous == reader.from = "scores" \/ reader.filter.host_id # ""

\* A client that follows has_more to its end has seen every row that was there at
\* its first page, however many rows were inserted before, between or after its
\* pages (SearchDatasetRecords and GetScores count after they have fetched).
PagesCoverStart ==
    reader.kind = "pages" /\ reader.pc = "done" /\ Unambiguous =>
        Listed(reader.first) \subseteq Range(reader.seen)

\* It sees no record twice if new records come last: in ascending order, or in
\* descending order from an anchor_time that the dataset had reached.
PagesNeverRepeat ==
    /\ reader.kind = "pages" /\ reader.pc \in {"items", "count", "done"}
    /\ reader.from = "telemetry" /\ Unambiguous
    /\ \/ reader.dir = "asc"
       \/ \E i \in Listed(reader.first) : dataset[i].metric_timestamp = reader.filter.end_time
    => IsInjective(reader.seen)

\* The groups listed are the most frequent ones, truncated says whether any is left
\* out, and total_distinct, counted earlier, never exceeds the groups there are.  (For
\* k = -1 the answer is empty and not marked as truncated.)
TopKIsTop ==
    reader.kind = "topk" /\ reader.pc = "done" /\ reader.k >= 0 =>
        LET T == Table(reader.at)
            listed == Range(reader.answer.items)
            left == Groups(T, DOMAIN T, reader.column) \ listed
            Size(g) == GroupSize(T, DOMAIN T, reader.column, g)
        IN  /\ Len(reader.answer.items) <= reader.k
            /\ reader.answer.truncated <=> left # {}
            /\ \A g \in listed, h \in left : Size(g) >= Size(h)
            /\ ~reader.answer.truncated => reader.total_distinct <= Len(reader.answer.items)

\* The bins are those between the edges, but their bounds went through six decimals: a
\* bin counts every matching record that lies inside its edges by half a sixth decimal,
\* and none that lies outside by more; it is exact when both bounds of the range have
\* no more than six decimals.  All bins together count the records of the range as it
\* was printed, its upper bound excluded: of the smallest and the largest record, which
\* range=minmax asks for, none, one or both.
HistogramPartition ==
    reader.kind = "histogram" /\ reader.pc = "done" /\ reader.counts # <<>> =>
        LET T == Table(reader.at)
            S == Matching(T, reader.filter)
            n == Len(reader.counts)
            lo == reader.range[1]
            hi == reader.range[2]
            slack == IF to_string(lo) = lo /\ to_string(hi) = hi THEN 0 ELSE n * Precision
            Inside(b, by) == CountIn(S, LAMBDA i :
                /\ 2 * n * T[i].value >= 2 * Edge(b - 1, lo, hi, n) + by
                /\ 2 * n * T[i].value < 2 * Edge(b, lo, hi, n) - by)
        IN  /\ n = Min({reader.requested_bins, MaxBins})
            /\ \A b \in 1..n : /\ Inside(b, slack) <= reader.counts[b]
                               /\ reader.counts[b] <= Inside(b, -slack)
            /\ SumFunction(reader.counts) =
                  CountIn(S, LAMBDA i : T[i].value >= to_string(lo) /\ T[i].value < to_string(hi))

\* The counts by type, "other" included, add up to the anomalies of the dataset when
\* they are read, which are at least those the anomaly rate was computed from.
SummaryAddsUp ==
    reader.kind = "summary" /\ reader.pc = "done" =>
        LET T == Table(reader.at)
            all == {i \in DOMAIN T : IsAnomaly(T[i])}
            sizes == [t \in Range(reader.types.listed) |-> GroupSize(T, all, "anomaly_type", t)]
            total == SumFunction(sizes) + reader.types.other
        IN  /\ total = Cardinality(all)
            /\ reader.anomalies <= total /\ reader.anomalies <= reader.row_count

\* Every record of the window is counted once, in a bucket that contains it; what
\* the window and its baseline share are the records of the instant they meet at
\* (both windows include both ends).
SeriesCountOnce ==
    reader.kind = "series" /\ reader.pc \in {"done", "compared"} =>
        LET S == InWindow(Table(reader.at), reader.window)
            Holds(b, i) == dataset[i].metric_timestamp \in b..(b + reader.size - 1)
        IN  /\ SumFunction(reader.items) = Cardinality(S)
            /\ \A b \in DOMAIN reader.items :
                  reader.items[b] = CountIn(S, LAMBDA i : Holds(b, i))
            /\ reader.pc = "compared" =>
                  LET B == InWindow(Table(reader.then), reader.baseline)
                  IN  /\ SumFunction(reader.before) = Cardinality(B)
                      /\ \A i \in B : dataset[i].metric_timestamp >=
                            2 * reader.window[1] - reader.window[2]
                      /\ \A i \in 1..reader.then : dataset[i].metric_timestamp
                            \in (2 * reader.window[1] - reader.window[2])..reader.window[1] => i \in B
                      /\ \A i \in S \cap B : dataset[i].metric_timestamp = reader.window[1]

\* The ROC curve rises and ends where everything is reported: all positives and all
\* negatives of the samples, which are the sums of the confusion matrix.
RocEndsAtAll ==
    reader.kind = "eval" /\ reader.pc = "done" /\ reader.samples # <<>> =>
        LET roc == reader.roc
            c == reader.confusion
        IN  /\ \A i \in 1..(Len(roc) - 1) :
                  roc[i].ttp <= roc[i + 1].ttp /\ roc[i].tfp <= roc[i + 1].tfp
            /\ roc[Len(roc)] = [ttp |-> c.tp + c.fn, tfp |-> c.fp + c.tn]

\* Each pass of a training has read a prefix of the dataset, every record once.
\* Unless a statement failed, that prefix holds what was there at the start and does
\* not shrink from pass to pass.
TrainingReadsPrefix ==
    reader.kind = "train" /\ reader.pc = "done" =>
        /\ Len(reader.read[1]) >= 2
        /\ \A p \in 1..3 : /\ Len(reader.read[p]) <= inserted
                           /\ \A i \in DOMAIN reader.read[p] : reader.read[p][i] = i
        /\ faults = 0 => /\ reader.start <= Len(reader.read[1])
                         /\ Len(reader.read[1]) <= Len(reader.read[2])
                         /\ Len(reader.read[2]) <= Len(reader.read[3])

\* The threshold is an error that at least the given percentage of the errors does not
\* exceed, and no more than that percentage lies below it.
ThresholdIsPercentile ==
    reader.kind = "train" /\ reader.pc = "done" =>
        LET errors == {reader.read[3][i] : i \in DOMAIN reader.read[3]}
            UpTo(t) == Whole * CountIn(errors, LAMBDA i : dataset[i].value <= t)
            goal == reader.percentile * Cardinality(errors)
        IN  /\ \E i \in errors : dataset[i].value = reader.threshold
            /\ UpTo(reader.threshold) >= goal
            /\ UpTo(reader.threshold - 1) <= goal

\* An answered inference run is COMPLETED exactly when 200 was answered, except that
\* a failed update leaves it RUNNING; and only a malformed sample or a failed
\* statement leaves a run RUNNING that nobody works on.
InferenceRowTruth ==
    reader.kind = "infer" /\ Answered =>
        /\ reader.row = "COMPLETED" => reader.pc = "200" /\ reader.scored
        /\ reader.pc = "200" /\ faults = 0 => reader.row = "COMPLETED"
        /\ reader.row = "RUNNING" => reader.samples = "malformed" \/ faults > 0

\* Following the pages lists everything that was there, each record once.
PagesSound == PagesCoverStart /\ PagesNeverRepeat

\* Every aggregate that is answered is right for the records its statements saw, also
\* where two statements saw different ones; the bins of a histogram up to the decimals
\* of their bounds.
AggregatesExact ==
    TopKIsTop /\ HistogramPartition /\ SummaryAddsUp /\ SeriesCountOnce /\ RocEndsAtAll

\* A training reads a prefix of the dataset in every pass, and its threshold is the
\* percentile of the errors of the last one.
TrainingSound == TrainingReadsPrefix /\ ThresholdIsPercentile

\* The row of an inference run tells how its request ended.
ReadsInv == TypeOK /\ InferenceRowTruth
=============================================================================

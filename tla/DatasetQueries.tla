--------------------------- MODULE DatasetQueries ---------------------------
(***************************************************************************)
(* What the analytics queries of DbClient compute from one snapshot of the *)
(* telemetry of a dataset, and the helpers of the API that go with them    *)
(* (pagination.h, time_resolution.h).                                      *)
(*                                                                         *)
(* A table T is the sequence of the records in the order of record_id,     *)
(* each [host_id, metric_timestamp, value, anomaly_type]; "null" is SQL's  *)
(* NULL and one metric stands for the five.  A value is a whole number of  *)
(* units, of which Precision make the sixth decimal, the last one that     *)
(* std::to_string keeps.  The generator sets is_anomaly exactly when it    *)
(* sets a type.  Where SQL leaves the order of equal rows open, or the     *)
(* rounding of doubles a result, an operator gives the set of possible     *)
(* answers.                                                                *)
(***************************************************************************)
EXTENDS Sequences, FiniteSetsExt, Sorting

CONSTANT Precision

ASSUME PrecisionAssumption == Precision \in Nat \ {0}

None == -1                              \* an absent number

IsAnomaly(r) == r.anomaly_type # "null"
CountIn(S, P(_)) == Cardinality({i \in S : P(i)})

NoFilter == [host_id |-> "", is_anomaly |-> "", anomaly_type |-> "",
             start_time |-> None, end_time |-> None]

\* The WHERE clause: an empty parameter adds no condition.
Matching(T, f) ==
    {i \in DOMAIN T :
        /\ f.host_id # "" => T[i].host_id = f.host_id
        /\ f.is_anomaly # "" => IsAnomaly(T[i]) = (f.is_anomaly = "true")
        /\ f.anomaly_type # "" => T[i].anomaly_type = f.anomaly_type
        /\ f.start_time # None => T[i].metric_timestamp >= f.start_time
        /\ f.end_time # None => T[i].metric_timestamp <= f.end_time}

\* Faulty variant: a page starts with the last row of the one before.
PageOverlapping(s, limit, offset) ==
    SubSeq(s, Max({offset, 1}), Min({offset + limit, Len(s)}))

\* LIMIT and OFFSET
Page(s, limit, offset) == SubSeq(s, offset + 1, Min({offset + limit, Len(s)}))

\* Faulty variant: a full page is taken for a sign of more.
HasMoreWhenFull(limit, offset, returned, total) == returned > limit

HasMore(limit, offset, returned, total) ==
    IF total # None THEN offset + returned < total ELSE returned >= limit

-----------------------------------------------------------------------------
(* GROUP BY *)

Groups(T, S, column) == {T[i][column] : i \in S}
GroupSize(T, S, column, g) == CountIn(S, LAMBDA i : T[i][column] = g)

\* GROUP BY column ORDER BY COUNT(*) DESC
RankedGroups(T, S, column) ==
    Orderings(Groups(T, S, column),
              LAMBDA g, h : GroupSize(T, S, column, g) > GroupSize(T, S, column, h))

\* COUNT(DISTINCT column), which does not count NULL
CountDistinct(T, S, column) == Cardinality(Groups(T, S, column) \ {"null"})

\* Faulty variant: one row less is fetched, so the last group is never noticed.
TopKFetchK(T, S, column, k) ==
    {[items |-> Page(ranked, k, 0), truncated |-> FALSE] : ranked \in RankedGroups(T, S, column)}

\* One row more than k is fetched, to see whether there are more.  No row is compared
\* with a k of -1.
TopK(T, S, column, k) ==
    {LET rows == Page(ranked, k + 1, 0)
     IN  [items |-> Page(rows, k, 0), truncated |-> k >= 0 /\ Len(rows) > k] :
        ranked \in RankedGroups(T, S, column)}

\* Faulty variant: the types beyond topk are dropped.
TypeCountsDropped(T, topk) ==
    LET S == {i \in DOMAIN T : IsAnomaly(T[i])}
    IN  {[listed |-> Page(ranked, topk, 0), other |-> 0] : ranked \in RankedGroups(T, S, "anomaly_type")}

\* The anomaly types of the summary: topk of them by name, the rest as "other".
TypeCounts(T, topk) ==
    LET S == {i \in DOMAIN T : IsAnomaly(T[i])}
    IN  {LET listed == Page(ranked, topk, 0)
         IN  [listed |-> listed,
              other |-> CountIn(S, LAMBDA i : T[i].anomaly_type \notin Range(listed))] :
            ranked \in RankedGroups(T, S, "anomaly_type")}

-----------------------------------------------------------------------------
(* Histogram *)

Values(T) == {T[i].value : i \in DOMAIN T}

\* The range asked for or, when that is empty, the one of the whole dataset.
HistogramRange(T, lo, hi) ==
    IF hi <= lo /\ T # <<>> THEN <<Min(Values(T)), Max(Values(T))>> ELSE <<lo, hi>>

\* PostgreSQL's width_bucket: 0 below the range, bins + 1 from hi on.
width_bucket(v, lo, hi, bins) ==
    CASE v < lo -> 0
      [] v >= hi -> bins + 1
      [] OTHER -> ((v - lo) * bins) \div (hi - lo) + 1

\* std::to_string and back: the nearest number of six decimals, of two the even one.
to_string(v) ==
    LET q == v \div Precision
        r == 2 * (v % Precision)
    IN  IF r < Precision \/ (r = Precision /\ q % 2 = 0) THEN q * Precision
        ELSE (q + 1) * Precision

\* Faulty variant: the buckets are not shifted to the positions of the vector.
HistogramShifted(T, S, lo, hi, bins) ==
    [b \in 1..bins |-> CountIn(S, LAMBDA i :
        width_bucket(T[i].value, to_string(lo), to_string(hi), bins) = b - 1)]

\* The counts are those of the range as it is printed into the query ...
Histogram(T, S, lo, hi, bins) ==
    [b \in 1..bins |-> CountIn(S, LAMBDA i :
        width_bucket(T[i].value, to_string(lo), to_string(hi), bins) = b)]

\* ... and the edges those of the range itself: edges[b], multiplied by bins.
Edge(b, lo, hi, bins) == lo * bins + (hi - lo) * b

\* width_bucket raises an error for a range or a number of bins that is not positive.
\* Without a row it is not called.
BucketsRejected(S, lo, hi, bins) == S # {} /\ (bins <= 0 \/ to_string(lo) = to_string(hi))

-----------------------------------------------------------------------------
(* Time series *)

Day == 86400

SelectBucketSeconds(start, end) ==
    IF start = None \/ end = None THEN 3600
    ELSE CASE end - start <= 6 * 3600 -> 300
           [] end - start <= 2 * Day -> 3600
           [] end - start <= 30 * Day -> 21600
           [] end - start <= 180 * Day -> Day
           [] OTHER -> 7 * Day

BucketSeconds(bucket, start, end) ==
    CASE bucket = "1m" -> 60
      [] bucket = "5m" -> 300
      [] bucket = "15m" -> 900
      [] bucket = "6h" -> 21600
      [] bucket = "1d" -> Day
      [] bucket = "7d" -> 7 * Day
      [] bucket \in {"", "auto"} -> SelectBucketSeconds(start, end)
      [] OTHER -> 3600                  \* "1h", and whatever is not known

\* At most one window.
PreviousPeriodWindow(start, end) ==
    IF start = None \/ end = None \/ end <= start THEN {}
    ELSE {<<start - (end - start), start>>}

\* Faulty variant: a time is rounded up to its bucket.
BucketOfUp(t, size) == ((t + size - 1) \div size) * size

BucketOf(t, size) == (t \div size) * size

\* GROUP BY bucket_ts: bucket -> number of records
GetTimeSeries(T, S, size) ==
    [b \in {BucketOf(T[i].metric_timestamp, size) : i \in S} |->
        CountIn(S, LAMBDA i : BucketOf(T[i].metric_timestamp, size) = b)]

-----------------------------------------------------------------------------
(* Evaluation and training.  A sample is [err, pred, label]. *)

Confusion(samples) ==
    LET Of(pred, label) == CountIn(DOMAIN samples, LAMBDA i :
                               samples[i].pred = pred /\ samples[i].label = label)
    IN  [tp |-> Of(TRUE, TRUE), fp |-> Of(TRUE, FALSE),
         tn |-> Of(FALSE, FALSE), fn |-> Of(FALSE, TRUE)]

RocPoints(points) == Max({Min({IF points > 0 THEN points ELSE 50, 200}), 10})

\* Faulty variant: the last threshold is never reached.
RocIndexShort(i, n, size) == (i * (size - 1)) \div n + 1

\* Position of the i-th threshold, i from 0.  The code divides doubles first.
RocIndex(i, n, size) == (i * (size - 1)) \div (n - 1) + 1

\* The samples by falling error, for std::sort.
ByError(samples) == SortBy(samples, LAMBDA a, b : a.err > b.err)

\* ROC points as counts of true and false positives
Roc(samples, points) ==
    LET n == RocPoints(points)
        sorted == ByError(samples)
        Point(t) == [ttp |-> CountIn(DOMAIN sorted, LAMBDA i : sorted[i].err >= t /\ sorted[i].label),
                     tfp |-> CountIn(DOMAIN sorted, LAMBDA i : sorted[i].err >= t /\ ~sorted[i].label)]
    IN  IF samples = <<>> THEN <<>>
        ELSE [i \in 1..n |-> Point(sorted[RocIndex(i - 1, n, Len(sorted))].err)]

Whole == 10000                          \* 100 percent, in hundredths

\* Faulty variant: the rank is rounded down.
PercentileIndexDown(len, percentile) == {Max({1, (percentile * len) \div Whole})}

\* Positions of the percentile among len sorted values: the rank percentile * len
\* rounded up.  Where the rank is a whole number, the product of doubles that the code
\* rounds may be slightly more.
PercentileIndex(len, percentile) ==
    LET rank == (percentile * len + Whole - 1) \div Whole
    IN  {rank} \cup IF (percentile * len) % Whole = 0 THEN {Min({rank + 1, len})} ELSE {}

percentile_value(values, percentile) ==
    {Sorted(values)[k] : k \in PercentileIndex(Len(values), percentile)}
=============================================================================

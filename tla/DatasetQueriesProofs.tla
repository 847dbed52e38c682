------------------------ MODULE DatasetQueriesProofs ------------------------
(***************************************************************************)
(* What the queries compute, for every table and every parameter: pages,   *)
(* percentiles, the most frequent groups, the summary by anomaly type, the *)
(* histogram, the time series, and the points of the ROC curve; and how    *)
(* the rows that a request lists change while the dataset grows.           *)
(***************************************************************************)
EXTENDS DatasetReads, DataLemmas

-----------------------------------------------------------------------------
(* Arithmetic of pages, buckets and percentiles *)

LEMMA MinOfTwo ==
    ASSUME NEW a \in Int, NEW b \in Int
    PROVE  Min({a, b}) = IF a <= b THEN a ELSE b
<1> DEFINE m == IF a <= b THEN a ELSE b
<1>1. m \in {a, b} /\ \A y \in {a, b} : m <= y
    OBVIOUS
<1>2. \A x \in {a, b} : (\A y \in {a, b} : x <= y) => x = m
    OBVIOUS
<1> HIDE DEF m
<1>3. Min({a, b}) \in {a, b} /\ \A y \in {a, b} : Min({a, b}) <= y
    BY <1>1, Zenon DEF Min
<1>4. Min({a, b}) = m
    BY <1>2, <1>3, Zenon
<1> QED BY <1>4 DEF m

\* The extremes of a finite set of numbers are numbers.
LEMMA Extremes ==
    ASSUME NEW S, IsFiniteSet(S), S # {}, S \subseteq Int
    PROVE  Min(S) \in Int /\ Max(S) \in Int
<1> DEFINE up == [x \in S |-> x]
           down == [x \in S |-> -x]
<1>1. \E x \in S : \A y \in S : up[y] <= up[x]
  <2>1. \A x \in S : up[x] \in Int
      OBVIOUS
  <2> HIDE DEF up
  <2> QED BY <2>1, LargestKey
<1>2. \E x \in S : \A y \in S : down[y] <= down[x]
  <2>1. \A x \in S : down[x] \in Int
      OBVIOUS
  <2> HIDE DEF down
  <2> QED BY <2>1, LargestKey
<1>3. \E x \in S : \A y \in S : x >= y
    BY <1>1
<1>4. \E x \in S : \A y \in S : x <= y
    BY <1>2
<1>5. Min(S) \in S /\ Max(S) \in S
    BY <1>3, <1>4, Zenon DEF Min, Max
<1> QED BY <1>5

\* A page holds the rows from offset on, at most limit.
PageEnd(n, limit, offset) == IF offset + limit <= n THEN offset + limit ELSE n
IsPage(page, s, n, limit, offset) ==
    LET last == PageEnd(n, limit, offset)
    IN  /\ Len(page) = IF offset < last THEN last - offset ELSE 0
        /\ \A i \in 1..Len(page) : offset + i \in 1..n /\ page[i] = s[offset + i]
        /\ Range(page) = Between(s, offset + 1, last)

LEMMA PageIs ==
    ASSUME NEW n \in Nat, NEW S, NEW s \in [1..n -> S], NEW limit \in Nat, NEW offset \in Nat
    PROVE  /\ Page(s, limit, offset) \in Seq(S)
           /\ IsPage(Page(s, limit, offset), s, n, limit, offset)
<1> DEFINE last == PageEnd(n, limit, offset)
           page == Page(s, limit, offset)
<1>1. s \in Seq(S) /\ Len(s) = n
    OBVIOUS
<1>2. Min({offset + limit, Len(s)}) = last
    BY <1>1, MinOfTwo DEF PageEnd
<1>3. page = SubSeq(s, offset + 1, last)
    BY <1>2, Zenon DEF Page
<1>4. last \in Nat /\ last <= n
    BY DEF PageEnd
<1> HIDE DEF last
<1>5. Len(page) = IF offset < last THEN last - offset ELSE 0
    BY <1>1, <1>3, <1>4
<1>6. \A i \in 1..Len(page) : offset + i \in 1..n /\ page[i] = s[offset + i]
    BY <1>1, <1>3, <1>4
<1>7. page \in Seq(S)
    BY <1>1, <1>3, <1>4
<1>8. Range(page) = Between(s, offset + 1, last)
  <2>1. DOMAIN page = 1..Len(page)
      BY <1>7
  <2> HIDE DEF page
  <2>2. ASSUME NEW i \in 1..Len(page) PROVE page[i] \in {s[j] : j \in (offset + 1)..last}
    <3>1. offset + i \in (offset + 1)..last /\ page[i] = s[offset + i]
        BY <1>4, <1>5, <1>6
    <3> QED BY <3>1, Zenon
  <2>3. ASSUME NEW j \in (offset + 1)..last PROVE \E i \in 1..Len(page) : page[i] = s[j]
    <3>1. j - offset \in 1..Len(page) /\ offset + (j - offset) = j
        BY <1>4, <1>5
    <3>2. page[j - offset] = s[j]
        BY <1>6, <3>1
    <3> QED BY <3>1, <3>2
  <2> QED BY <2>1, <2>2, <2>3, Zenon DEF Range, Between
<1> QED BY <1>5, <1>6, <1>7, <1>8, Zenon DEF last, page, IsPage

\* A page of a negative number of rows is as empty as one of none.
LEMMA NegativeLimit ==
    ASSUME NEW n \in Nat, NEW S, NEW s \in [1..n -> S], NEW limit \in Int
    PROVE  Page(s, limit, 0) = Page(s, IF limit < 0 THEN 0 ELSE limit, 0)
<1>1. CASE limit < 0
  <2>1. s \in Seq(S) /\ Len(s) = n
      OBVIOUS
  <2>2. Min({0 + limit, Len(s)}) = limit /\ Min({0 + 0, Len(s)}) = 0
      BY <1>1, <2>1, MinOfTwo
  <2>3. SubSeq(s, 0 + 1, limit) = << >> /\ SubSeq(s, 0 + 1, 0) = << >>
      BY <1>1, <2>1
  <2> QED BY <1>1, <2>2, <2>3, Zenon DEF Page
<1>2. CASE ~(limit < 0)
    BY <1>2, Zenon
<1> QED BY <1>1, <1>2, Zenon

\* A value is in the bin between whose edges it lies, and in none outside the range.
BetweenEdges(v, lo, hi, n) ==
    /\ width_bucket(v, lo, hi, n) \in 1..n <=> v >= lo /\ v < hi
    /\ \A b \in 1..n : width_bucket(v, lo, hi, n) = b <=>
          v * n >= Edge(b - 1, lo, hi, n) /\ v * n < Edge(b, lo, hi, n)

LEMMA BucketBetweenEdges ==
    ASSUME NEW v \in Int, NEW lo \in Int, NEW hi \in Int, lo < hi, NEW n \in Nat \ {0}
    PROVE  BetweenEdges(v, lo, hi, n)
<1> SUFFICES /\ width_bucket(v, lo, hi, n) \in 1..n <=> v >= lo /\ v < hi
             /\ \A b \in 1..n : width_bucket(v, lo, hi, n) = b <=>
                   v * n >= Edge(b - 1, lo, hi, n) /\ v * n < Edge(b, lo, hi, n)
    BY Zenon DEF BetweenEdges
<1> DEFINE d == hi - lo
           x == (v - lo) * n
           w == width_bucket(v, lo, hi, n)
<1>1. d \in Nat \ {0} /\ x \in Int /\ x = v * n - lo * n
    OBVIOUS
<1>2. \A b \in 1..n : Edge(b, lo, hi, n) = lo * n + d * b /\ Edge(b - 1, lo, hi, n) = lo * n + d * (b - 1)
    BY DEF Edge
<1>3. \A b \in 1..n : d * (b - 1) >= 0 /\ d * b <= d * n /\ d * b \in Int /\ d * (b - 1) \in Int
    BY <1>1
<1>4. lo * n \in Int /\ v * n \in Int /\ d * n \in Int
    BY <1>1
<1>5. CASE v < lo
  <2>1. w = 0
      BY <1>5 DEF width_bucket
  <2>2. v * n < lo * n
      BY <1>5
  <2> HIDE DEF d, w
  <2> QED BY <1>2, <1>3, <1>4, <1>5, <2>1, <2>2 DEF w
<1>6. CASE v >= hi
  <2>1. w = n + 1
      BY <1>6 DEF width_bucket
  <2>2. v * n >= lo * n + d * n
    <3>1. v * n >= hi * n
        BY <1>6
    <3>2. hi * n = lo * n + d * n
        OBVIOUS
    <3> QED BY <3>1, <3>2
  <2> HIDE DEF d, w
  <2> QED BY <1>2, <1>3, <1>4, <1>6, <2>1, <2>2 DEF w
<1>7. CASE lo <= v /\ v < hi
  <2>1. w = x \div d + 1
      BY <1>7 DEF width_bucket
  <2>2. x \in Nat /\ x < d * n
    <3>1. 0 <= v - lo /\ v - lo < d
        BY <1>7
    <3>2. 0 <= (v - lo) * n
        BY <3>1
    <3>3. (v - lo) * n < d * n
        BY <3>1
    <3> QED BY <1>1, <3>2, <3>3
  <2> HIDE DEF x
  <2>3. \A q \in Int : x \div d = q <=> (d * q <= x /\ x < d * (q + 1))
      BY <1>1, <2>2, QuotientIs
  <2>4. x \div d \in Int
      BY <1>1, <2>2, DivMod
  <2> DEFINE q == x \div d
  <2>5. d * q <= x /\ x < d * (q + 1)
      BY <2>3, <2>4
  <2> HIDE DEF d, q
  <2>6. 0 <= q /\ q < n
    <3>1. q < 0 => d * (q + 1) <= 0
        BY <1>1, <2>4 DEF q
    <3>2. q >= n => d * q >= d * n
        BY <1>1, <2>4 DEF q
    <3>3. d * q \in Int /\ d * (q + 1) \in Int
        BY <1>1, <2>4 DEF q
    <3> QED BY <1>4, <2>2, <2>4, <2>5, <3>1, <3>2, <3>3 DEF q
  <2>7. ASSUME NEW b \in 1..n
        PROVE  w = b <=> (d * (b - 1) <= x /\ x < d * b)
    <3>1. w = b <=> q = b - 1
        BY <2>1, <2>4 DEF q
    <3>2. b - 1 \in Int /\ (b - 1) + 1 = b
        OBVIOUS
    <3> QED BY <2>3, <3>1, <3>2 DEF q
  <2> HIDE DEF w
  <2>8. w \in 1..n
      BY <2>1, <2>4, <2>6 DEF q
  <2>9. ASSUME NEW b \in 1..n
        PROVE  w = b <=> v * n >= Edge(b - 1, lo, hi, n) /\ v * n < Edge(b, lo, hi, n)
      BY <1>1, <1>2, <1>3, <1>4, <2>7 DEF x
  <2> QED BY <1>7, <2>8, <2>9 DEF w
<1> QED BY <1>5, <1>6, <1>7

\* A record is in a bucket of the time series exactly when the bucket contains it.
LEMMA BucketContains ==
    ASSUME NEW t \in Nat, NEW u \in Nat, NEW size \in Nat \ {0}
    PROVE  /\ BucketOf(u, size) \in Int
           /\ BucketOf(t, size) = BucketOf(u, size) <=>
                t \in BucketOf(u, size)..(BucketOf(u, size) + size - 1)
<1> DEFINE q == u \div size
           p == t \div size
<1>1. q \in Int /\ p \in Int
    BY DivMod
<1>2. p = q <=> size * q <= t /\ t < size * (q + 1)
    BY <1>1, QuotientIs
<1> HIDE DEF p, q
<1>3. size * (q + 1) = size * q + size /\ size * q = q * size /\ q * size \in Int
    BY <1>1
<1>4. p # q => p * size # q * size
  <2>1. p > q => p * size > q * size
      BY <1>1
  <2>2. q > p => q * size > p * size
      BY <1>1
  <2> QED BY <1>1, <2>1, <2>2
<1>5. BucketOf(u, size) = q * size /\ BucketOf(t, size) = p * size
    BY DEF BucketOf, p, q
<1> QED BY <1>2, <1>3, <1>4, <1>5

LEMMA WholeType == Whole \in Nat \ {0}
BY DEF Whole

\* A position that PercentileIndex allows reaches the rank, and the one before does not
\* pass it.
LEMMA IndexIsRank ==
    ASSUME NEW n \in Nat \ {0}, NEW percentile \in 1..Whole, NEW k \in PercentileIndex(n, percentile)
    PROVE  /\ k \in 1..n /\ percentile * n \in Nat
           /\ Whole * k >= percentile * n /\ Whole * (k - 1) <= percentile * n
<1> DEFINE x == percentile * n
           q == (x + Whole - 1) \div Whole
           d == x \div Whole
<1>2. k = q \/ (x % Whole = 0 /\ k = Min({q + 1, n}))
    BY Zenon DEF PercentileIndex
<1>4. Whole \in Nat \ {0}
    BY WholeType
<1>1. x \in Nat \ {0} /\ q \in 1..n /\ Whole * q >= x /\ Whole * (q - 1) < x
  <2>1. Reaches(x, Whole, n, q)
      BY <1>4, RankRoundedUp, ZenonT(60)
  <2> QED BY <2>1, Zenon DEF Reaches
<1> HIDE DEF x, q
<1>3. d \in Int /\ x = Whole * d + (x % Whole)
  <2>1. x \in Nat
      BY <1>1
  <2> QED BY <1>4, <2>1, DivMod, Zenon
<1> HIDE DEF d
<1>5. Whole * q \in Int /\ Whole * (q - 1) \in Int
    BY <1>1, <1>4
<1>6. CASE k = q
  <2>1. k \in 1..n /\ Whole * k >= x /\ Whole * (k - 1) < x
      BY <1>1, <1>6, Zenon
  <2>2. Whole * (k - 1) <= x /\ x \in Nat
      BY <1>1, <1>5, <1>6, <2>1
  <2> QED BY <2>1, <2>2, Zenon DEF x
<1>7. CASE x % Whole = 0 /\ k = Min({q + 1, n})
  <2>1. k = IF q + 1 <= n THEN q + 1 ELSE n
      BY <1>1, <1>7, MinOfTwo
  <2>2. k = q \/ (k = q + 1 /\ k \in 1..n)
      BY <1>1, <2>1
  <2>3. CASE k = q
      BY <1>6, <2>3
  <2>4. CASE k = q + 1 /\ k \in 1..n
    <3>1. x = Whole * d
        BY <1>1, <1>3, <1>4, <1>7
    <3>2. d <= q - 1 => d * Whole <= (q - 1) * Whole
        BY <1>1, <1>3, <1>4, Scaled
    <3>3. q + 1 <= d => (q + 1) * Whole <= d * Whole
        BY <1>1, <1>3, <1>4, Scaled
    <3>4. /\ d * Whole = Whole * d /\ (q - 1) * Whole = Whole * (q - 1)
          /\ (q + 1) * Whole = Whole * q + Whole
        BY <1>1, <1>3, <1>4
    <3>5. d = q
        BY <1>1, <1>3, <1>4, <1>5, <3>1, <3>2, <3>3, <3>4
    <3>6. Whole * (q + 1) = Whole * q + Whole /\ k - 1 = q
        BY <1>1, <1>4, <2>4
    <3>7. Whole * k >= x /\ Whole * (k - 1) <= x /\ x \in Nat
        BY <1>1, <1>4, <1>5, <2>4, <3>1, <3>5, <3>6
    <3> QED BY <2>4, <3>7, Zenon DEF x
  <2> QED BY <2>2, <2>3, <2>4
<1> QED BY <1>2, <1>6, <1>7, Zenon

\* percentile_value returns one of the errors, such that at least the given part of them
\* does not exceed it and no more than that part is below it, however many there are,
\* however nth_element leaves ties and whichever way the rank was rounded.
THEOREM PercentileIs ==
    ASSUME NEW n \in Nat \ {0}, NEW v \in [1..n -> Int], NEW percentile \in 1..Whole,
           NEW t \in percentile_value(v, percentile)
    PROVE  /\ \E i \in 1..n : v[i] = t
           /\ Whole * Cardinality({i \in 1..n : v[i] <= t}) >= percentile * n
           /\ Whole * Cardinality({i \in 1..n : v[i] <= t - 1}) <= percentile * n
<1> DEFINE x == percentile * n
           Low == {i \in 1..n : v[i] <= t}
           Below == {i \in 1..n : v[i] <= t - 1}
<1>1. PICK p : /\ Enumerates(p, n, 1..n) /\ Ascending(v, p, n)
               /\ Sorted(v) = [i \in 1..n |-> v[p[i]]]
    BY SortedValues, Zenon
<1>3. Len(v) = n
    OBVIOUS
<1>12. PICK k \in PercentileIndex(n, percentile) : t = Sorted(v)[k]
    BY <1>3, Zenon DEF percentile_value
<1>2. k \in 1..n /\ Whole * k >= x /\ Whole * (k - 1) <= x /\ x \in Nat
    BY IndexIsRank, Zenon
<1> HIDE DEF x
<1>4. t = v[p[k]]
    BY <1>1, <1>2, <1>12, Zenon
<1>5. p[k] \in 1..n /\ v[p[k]] \in Int
    BY <1>1, <1>2 DEF Enumerates
<1>6. /\ Cardinality(AtMost(v, n, v[p[k]])) >= k
      /\ Cardinality(Under(v, n, v[p[k]])) <= k - 1
    BY <1>1, <1>2, SortedCounts, Zenon
<1>7. Low = AtMost(v, n, v[p[k]]) /\ Below = Under(v, n, v[p[k]])
    BY <1>4, <1>5 DEF AtMost, Under
<1>8. Cardinality(Low) >= k /\ Cardinality(Below) <= k - 1
    BY <1>6, <1>7, Zenon
<1>9. Cardinality(Low) \in Nat /\ Cardinality(Below) \in Nat
  <2>1. IsFiniteSet(1..n) /\ Low \in SUBSET (1..n) /\ Below \in SUBSET (1..n)
      BY FS_Interval
  <2> QED BY <2>1, CountSubset
<1> HIDE DEF Low, Below
<1>10. Whole * Cardinality(Low) >= x /\ Whole * Cardinality(Below) <= x
  <2> DEFINE a == Cardinality(Low)
             b == Cardinality(Below)
  <2>1. /\ k * Whole <= a * Whole /\ b * Whole <= (k - 1) * Whole
        /\ k * Whole \in Int /\ a * Whole \in Int /\ b * Whole \in Int /\ (k - 1) * Whole \in Int
    <3>1. k \in Int /\ k - 1 \in Int /\ a \in Int /\ b \in Int /\ Whole \in Nat /\ k <= a /\ b <= k - 1
        BY <1>2, <1>8, <1>9, WholeType
    <3> QED BY <3>1, Scaled, Zenon
  <2>2. \A y \in Int : y * Whole = Whole * y
      BY WholeType
  <2>3. k \in Int /\ k - 1 \in Int /\ a \in Int /\ b \in Int
      BY <1>2, <1>9
  <2> HIDE DEF a, b
  <2>5. /\ k * Whole = Whole * k /\ (k - 1) * Whole = Whole * (k - 1)
        /\ a * Whole = Whole * a /\ b * Whole = Whole * b
      BY <2>2, <2>3, Zenon
  <2>6. k * Whole >= x /\ (k - 1) * Whole <= x
      BY <1>2, <2>5, Zenon
  <2> DEFINE u == k * Whole
             w == a * Whole
             y == b * Whole
             z == (k - 1) * Whole
  <2>4. u \in Int /\ w \in Int /\ y \in Int /\ z \in Int /\ u <= w /\ y <= z /\ u >= x /\ z <= x
      BY <2>1, <2>6, Zenon
  <2>7. w >= x /\ y <= x
    <3> HIDE DEF u, w, y, z
    <3> QED BY <1>2, <2>4
  <2> QED BY <2>5, <2>7, Zenon DEF a, b
<1>11. \E i \in 1..n : v[i] = t
    BY <1>4, <1>5
<1> QED BY <1>10, <1>11, Zenon DEF Low, Below, x

-----------------------------------------------------------------------------
(* Datasets and their prefixes *)

LEMMA DatasetIs ==
    ASSUME NEW d \in Datasets
    PROVE  /\ d \in Seq(Record) /\ Len(d) \in Nat
           /\ \A i \in 1..Len(d) : d[i] \in Record /\ d[i].metric_timestamp \in Nat /\ d[i].value \in Int
<1>1. d \in Seq(Record)
    BY ReadsAssumption, Zenon
<1>2. Len(d) \in Nat /\ \A i \in 1..Len(d) : d[i] \in Record
    BY <1>1
<1>3. \A record \in Record : record.metric_timestamp \in Nat /\ record.value \in Int
    BY DEF Record
<1> QED BY <1>1, <1>2, <1>3

\* The records 1 to n.
Upto(n) == [i \in 1..n |-> i]

LEMMA UptoIs ==
    ASSUME NEW n \in Nat
    PROVE  Upto(n) \in Seq(Nat) /\ Len(Upto(n)) = n /\ \A i \in 1..n : Upto(n)[i] = i
BY DEF Upto

LEMMA UptoExtended ==
    ASSUME NEW n \in Nat, NEW k \in Nat
    PROVE  Upto(n) \o [i \in 1..k |-> n + i] = Upto(n + k)
<1> DEFINE b == [i \in 1..k |-> n + i]
           s == Upto(n) \o b
<1>1. /\ Upto(n) \in Seq(Nat) /\ Len(Upto(n)) = n /\ \A i \in 1..n : Upto(n)[i] = i
      /\ b \in Seq(Nat) /\ Len(b) = k /\ \A i \in 1..k : b[i] = n + i
    BY UptoIs
<1> HIDE DEF b
<1>2. s \in Seq(Nat) /\ Len(s) = n + k
    BY <1>1
<1>3. ASSUME NEW i \in 1..(n + k) PROVE s[i] = i
  <2>1. CASE i \in 1..n
      BY <1>1, <2>1
  <2>2. CASE i \notin 1..n
    <3>1. i - n \in 1..k /\ s[i] = b[i - n] /\ n + (i - n) = i
        BY <1>1, <2>2
    <3> QED BY <1>1, <3>1
  <2> QED BY <2>1, <2>2, Zenon
<1> HIDE DEF s
<1>4. s \in [1..(n + k) -> Nat]
    BY <1>2
<1>5. s = [i \in 1..(n + k) |-> i]
    BY <1>3, <1>4
<1> QED BY <1>5 DEF Upto, s, b

-----------------------------------------------------------------------------
(* Pages of a dataset that grows *)

Meets(record, f) ==
    /\ f.host_id # "" => record.host_id = f.host_id
    /\ f.is_anomaly # "" => IsAnomaly(record) = (f.is_anomaly = "true")
    /\ f.anomaly_type # "" => record.anomaly_type = f.anomaly_type
    /\ f.start_time # None => record.metric_timestamp >= f.start_time
    /\ f.end_time # None => record.metric_timestamp <= f.end_time

\* Listed and ListedBefore of the request r on the dataset d.
Lists(d, r, i) ==
    IF r.from = "telemetry" THEN Meets(d[i], r.filter)
    ELSE r.only_anomalies => d[i].value > Threshold
Rows(d, r) == [n \in 0..Len(d) |-> {i \in 1..n : Lists(d, r, i)}]

Precedes(d, r, i, j) ==
    IF r.from = "scores" THEN d[i].value > d[j].value \/ (d[i].value = d[j].value /\ i > j)
    ELSE IF r.dir = "asc" THEN d[i].metric_timestamp < d[j].metric_timestamp
    ELSE d[i].metric_timestamp > d[j].metric_timestamp
Order(d, r) == {p \in (1..Len(d)) \X (1..Len(d)) : Precedes(d, r, p[1], p[2])}

\* The order has no ties; new records come last.
Clear(r) == r.from = "scores" \/ r.filter.host_id # ""
Steady(d, r) ==
    /\ r.from = "telemetry"
    /\ r.dir = "asc" \/ \E i \in Rows(d, r)[r.first] : d[i].metric_timestamp = r.filter.end_time

LEMMA OrderIs ==
    ASSUME NEW d, NEW r, NEW i \in 1..Len(d), NEW j \in 1..Len(d)
    PROVE  <<i, j>> \in Order(d, r) <=> Precedes(d, r, i, j)
BY DEF Order

LEMMA RowsList ==
    ASSUME NEW d \in Datasets, NEW r, r.from = "telemetry" \/ r.from = "scores", Clear(r)
    PROVE  Listing(Rows(d, r), Order(d, r), Len(d))
<1> DEFINE N == Len(d)
           A == Rows(d, r)
<1>1. N \in Nat /\ \A i \in 1..N : d[i].metric_timestamp \in Nat /\ d[i].value \in Int
    BY DatasetIs
<1> HIDE DEF N
<1>2. \A n \in 0..N : A[n] = {i \in 1..n : Lists(d, r, i)}
    BY Zenon DEF N, Rows
<1>3. \A n, m \in 0..N : n <= m => 1..n \subseteq 1..m /\ 1..n \subseteq 1..N
    BY <1>1
<1> HIDE DEF A
<1>4. \A n, m \in 0..N : n <= m => A[n] \in SUBSET A[m]
    BY <1>2, <1>3, Zenon
<1>5. ASSUME NEW n \in 0..N PROVE A[n] \in SUBSET (1..n)
    BY <1>2, Zenon
<1>6. ASSUME NEW i \in 1..N, NEW j \in 1..N, Lists(d, r, i), Lists(d, r, j), i < j
      PROVE  /\ Precedes(d, r, i, j) \/ Precedes(d, r, j, i)
             /\ ~(Precedes(d, r, i, j) /\ Precedes(d, r, j, i))
  <2>1. CASE r.from = "scores"
      BY <1>1, <1>6, <2>1 DEF Precedes
  <2>2. CASE r.from = "telemetry"
    <3>1. d[i].host_id = d[j].host_id
        BY <1>6, <2>2, Zenon DEF Lists, Meets, Clear
    <3>2. DOMAIN d = 1..N
        BY DatasetIs DEF N
    <3>3. d[i].metric_timestamp < d[j].metric_timestamp
        BY <1>6, <3>1, <3>2, ReadsAssumption, Zenon
    <3>4. d[i].metric_timestamp \in Nat /\ d[j].metric_timestamp \in Nat
        BY <1>1
    <3> QED BY <2>2, <3>3, <3>4 DEF Precedes
  <2> QED BY <2>1, <2>2
<1>7. ASSUME NEW i \in 1..N PROVE ~Precedes(d, r, i, i)
    BY <1>1 DEF Precedes
<1>8. ASSUME NEW n \in 0..N PROVE TotallyOrders(Order(d, r), A[n])
  <2>1. ASSUME NEW i \in A[n], NEW j \in A[n]
        PROVE  /\ i = j \/ <<i, j>> \in Order(d, r) \/ <<j, i>> \in Order(d, r)
               /\ ~(<<i, j>> \in Order(d, r) /\ <<j, i>> \in Order(d, r))
    <3>1. i \in 1..N /\ j \in 1..N /\ Lists(d, r, i) /\ Lists(d, r, j)
      <4>1. n <= n
          BY <1>1
      <4> QED BY <1>2, <1>3, <4>1
    <3>2. i < j \/ j < i \/ i = j
        BY <3>1
    <3>3. /\ <<i, j>> \in Order(d, r) <=> Precedes(d, r, i, j)
          /\ <<j, i>> \in Order(d, r) <=> Precedes(d, r, j, i)
        BY <3>1, OrderIs DEF N
    <3>4. /\ i # j => Precedes(d, r, i, j) \/ Precedes(d, r, j, i)
          /\ ~(Precedes(d, r, i, j) /\ Precedes(d, r, j, i))
        BY <1>6, <1>7, <3>1, <3>2, Zenon
    <3> QED BY <3>3, <3>4, Zenon
  <2> QED BY <2>1, Zenon DEF TotallyOrders
<1> QED BY <1>1, <1>4, <1>5, <1>8, Zenon DEF Listing, A, N

LEMMA LaterRow ==
    ASSUME NEW d \in Datasets, NEW r, r.from = "telemetry", Clear(r), NEW i \in 1..Len(d),
           NEW j \in 1..Len(d), Lists(d, r, i), Lists(d, r, j), i < j
    PROVE  d[i].metric_timestamp < d[j].metric_timestamp
<1>1. d[i].host_id = d[j].host_id
    BY Zenon DEF Lists, Meets, Clear
<1>2. DOMAIN d = 1..Len(d)
    BY DatasetIs
<1> QED BY <1>1, <1>2, ReadsAssumption, Zenon

LEMMA NewRowsLast ==
    ASSUME NEW d \in Datasets, NEW r, Clear(r), Steady(d, r), r.first \in Nat
    PROVE  JoinsLast(Rows(d, r), Order(d, r), Len(d), r.first)
<1> DEFINE N == Len(d)
           A == Rows(d, r)
           t(i) == d[i].metric_timestamp
<1>1. N \in Nat /\ \A i \in 1..N : t(i) \in Nat
    BY DatasetIs
<1> HIDE DEF N
<1>2. \A n \in 0..N : A[n] = {i \in 1..n : Lists(d, r, i)}
    BY Zenon DEF N, Rows
<1>3. r.from = "telemetry"
    BY DEF Steady
<1> HIDE DEF A
<1>4. ASSUME NEW n \in 0..N, NEW m \in 0..N, r.first <= n, n <= m, NEW i \in A[n], NEW j \in A[m],
             j \notin A[n]
      PROVE  j # i /\ <<j, i>> \notin Order(d, r)
  <2>1. i \in 1..n /\ j \in 1..m /\ Lists(d, r, i) /\ Lists(d, r, j) /\ j \notin 1..n
      BY <1>2, <1>4
  <2>2. i \in 1..N /\ j \in 1..N /\ n < j /\ i < j
      BY <1>1, <1>4, <2>1
  <2>3. t(i) < t(j)
      BY <1>3, <2>1, <2>2, LaterRow, Zenon DEF N
  <2>4. CASE r.dir = "asc"
    <3>1. Precedes(d, r, j, i) <=> t(j) < t(i)
        BY <1>3, <2>4, Zenon DEF Precedes
    <3>2. ~(t(j) < t(i))
        BY <1>1, <2>2, <2>3
    <3>3. ~Precedes(d, r, j, i)
        BY <3>1, <3>2, Zenon
    <3> QED BY <1>4, <2>2, <3>3, OrderIs DEF N
  <2>5. CASE r.dir # "asc"
    <3>1. PICK e \in A[r.first] : t(e) = r.filter.end_time
        BY <2>5, Zenon DEF Steady, A
    <3>2. r.first \in 0..N
        BY <1>1, <1>4
    <3>3. e \in 1..r.first /\ Lists(d, r, e)
        BY <1>2, <3>1, <3>2, Zenon
    <3>4. e \in 1..N /\ e < j
        BY <1>1, <1>4, <2>2, <3>3
    <3>5. t(e) < t(j)
        BY <1>3, <2>1, <2>2, <3>3, <3>4, LaterRow, Zenon DEF N
    <3>6. t(e) # None
        BY <1>1, <3>4 DEF None
    <3>7. t(j) <= r.filter.end_time
        BY <1>3, <2>1, <3>1, <3>6, Zenon DEF Lists, Meets
    <3> QED BY <1>1, <2>2, <3>1, <3>4, <3>5, <3>7
  <2> QED BY <2>4, <2>5
<1> QED BY <1>4, Zenon DEF JoinsLast, A, N

PagesFields(r) ==
    /\ {"kind", "pc", "from", "limit", "offset", "page", "seen", "first"} \subseteq DOMAIN r
    /\ \/ r.from = "telemetry" /\ {"dir", "filter"} \subseteq DOMAIN r
       \/ r.from = "scores" /\ "only_anomalies" \in DOMAIN r
    /\ r.limit \in Nat \ {0} /\ r.offset \in Nat /\ r.first \in Nat
    /\ r.page \in Seq(Nat) /\ r.seen \in Seq(Nat)

\* The page about to be fetched starts after what was seen.  No row of the start has
\* slipped before it and, if new records come last, no row that was seen behind it.
BeforePage(d, r, n) ==
    /\ r.offset = 0 => r.seen = <<>>
    /\ Clear(r) =>
          LET A == Rows(d, r)
              R == Order(d, r)
          IN  /\ r.offset = 0 \/ Covering(A, R, n, r.first, Range(r.seen), r.offset)
              /\ Steady(d, r) => Placed(A, R, n, r.seen, Len(r.seen), 0, r.offset)

\* The same of the page that was fetched.
AfterPage(d, r, n) ==
    Clear(r) =>
        LET A == Rows(d, r)
            R == Order(d, r)
            W == Range(r.seen) \cup Range(r.page)
            next == r.offset + r.limit
        IN  /\ Covering(A, R, n, r.first, W, next)
            /\ Len(r.page) = r.limit \/ A[r.first] \subseteq W
            /\ Steady(d, r) => /\ Placed(A, R, n, r.seen, Len(r.seen), 0, r.offset)
                               /\ Placed(A, R, n, r.page, Len(r.page), r.offset, next)

AfterPages(d, r) ==
    Clear(r) => /\ Rows(d, r)[r.first] \subseteq Range(r.seen)
                /\ Steady(d, r) => IsInjective(r.seen)

Paged(d, r, n) ==
    /\ PagesFields(r) /\ r.first <= n
    /\ r.pc = "items" => BeforePage(d, r, n)
    /\ r.pc = "count" => AfterPage(d, r, n)
    /\ r.pc = "done" => AfterPages(d, r)

LEMMA PagedGrows ==
    ASSUME NEW d \in Datasets, NEW r, NEW n \in 0..Len(d), NEW m \in 0..Len(d), n <= m, Paged(d, r, n)
    PROVE  Paged(d, r, m)
<1> DEFINE A == Rows(d, r)
           R == Order(d, r)
<1>1. PagesFields(r) /\ r.first \in Nat /\ r.offset \in Nat /\ r.limit \in Nat /\ r.first <= n
    BY DEF Paged, PagesFields
<1>2. Clear(r) => Listing(A, R, Len(d))
    BY <1>1, RowsList DEF PagesFields
<1>3. Clear(r) /\ Steady(d, r) => JoinsLast(A, R, Len(d), r.first)
    BY <1>1, NewRowsLast
<1>4. r.first <= m /\ r.offset + r.limit \in Nat
    BY <1>1
<1> HIDE DEF A, R
<1>5. r.pc = "items" => BeforePage(d, r, m)
  <2>1. SUFFICES ASSUME BeforePage(d, r, n), Clear(r)
                 PROVE  /\ r.offset = 0 \/ Covering(A, R, m, r.first, Range(r.seen), r.offset)
                        /\ Steady(d, r) => Placed(A, R, m, r.seen, Len(r.seen), 0, r.offset)
      BY Zenon DEF Paged, BeforePage, A, R
  <2>2. /\ r.offset = 0 \/ Covering(A, R, n, r.first, Range(r.seen), r.offset)
        /\ Steady(d, r) => Placed(A, R, n, r.seen, Len(r.seen), 0, r.offset)
      BY <2>1, Zenon DEF BeforePage, A, R
  <2> QED BY <1>1, <1>2, <1>3, <2>1, <2>2, CoverGrows, PlacedStay, Zenon
<1>6. r.pc = "count" => AfterPage(d, r, m)
  <2> DEFINE W == Range(r.seen) \cup Range(r.page)
             next == r.offset + r.limit
  <2>1. SUFFICES ASSUME AfterPage(d, r, n), Clear(r), r.pc = "count" PROVE AfterPage(d, r, m)
      BY Zenon DEF Paged, AfterPage
  <2>2. /\ Covering(A, R, n, r.first, W, next)
        /\ Len(r.page) = r.limit \/ A[r.first] \subseteq W
        /\ Steady(d, r) => /\ Placed(A, R, n, r.seen, Len(r.seen), 0, r.offset)
                           /\ Placed(A, R, n, r.page, Len(r.page), r.offset, next)
      BY <2>1, Zenon DEF AfterPage, A, R
  <2>3. next \in Nat
      BY <1>4
  <2> HIDE DEF W, next
  <2>4. Covering(A, R, m, r.first, W, next)
      BY <1>2, <2>1, <2>2, <2>3, CoverGrows, Zenon
  <2>5. Steady(d, r) => /\ Placed(A, R, m, r.seen, Len(r.seen), 0, r.offset)
                        /\ Placed(A, R, m, r.page, Len(r.page), r.offset, next)
      BY <1>1, <1>2, <1>3, <2>1, <2>2, PlacedStay, Zenon
  <2> QED BY <2>2, <2>4, <2>5, Zenon DEF AfterPage, A, R, W, next
<1>7. r.pc = "done" => AfterPages(d, r)
    BY Zenon DEF Paged
<1> QED BY <1>1, <1>4, <1>5, <1>6, <1>7, Zenon DEF Paged

\* The steps of the request, as functions of it.
Fetched(r, page, n) ==
    [r EXCEPT !.pc = "count", !.page = page, !.first = IF r.offset = 0 THEN n ELSE @]
Counted(r, more) ==
    [r EXCEPT !.page = <<>>, !.seen = r.seen \o r.page, !.pc = IF more THEN "items" ELSE "done",
              !.offset = IF more THEN @ + r.limit ELSE @]

SameListing(r, u) ==
    /\ u.from = r.from
    /\ r.from = "telemetry" => u.dir = r.dir /\ u.filter = r.filter
    /\ r.from = "scores" => u.only_anomalies = r.only_anomalies

LEMMA SameRows ==
    ASSUME NEW d, NEW r, NEW u, r.from = "telemetry" \/ r.from = "scores", SameListing(r, u)
    PROVE  /\ Rows(d, u) = Rows(d, r) /\ Order(d, u) = Order(d, r) /\ (Clear(u) <=> Clear(r))
           /\ u.first = r.first => (Steady(d, u) <=> Steady(d, r))
<1>1. \A i : Lists(d, u, i) <=> Lists(d, r, i)
    BY Zenon DEF Lists, SameListing
<1>2. Rows(d, u) = Rows(d, r)
    BY <1>1, Zenon DEF Rows
<1>3. \A i, j : Precedes(d, u, i, j) <=> Precedes(d, r, i, j)
    BY Zenon DEF Precedes, SameListing
<1>4. Order(d, u) = Order(d, r)
    BY <1>3, Zenon DEF Order
<1>5. Clear(u) <=> Clear(r)
    BY Zenon DEF Clear, SameListing
<1>6. u.first = r.first => (Steady(d, u) <=> Steady(d, r))
    BY <1>2, Zenon DEF Steady, SameListing
<1> QED BY <1>2, <1>4, <1>5, <1>6

LEMMA FetchedFields ==
    ASSUME NEW r, PagesFields(r), NEW n \in Nat, NEW page \in Seq(Nat)
    PROVE  LET u == Fetched(r, page, n)
           IN  /\ PagesFields(u) /\ SameListing(r, u) /\ u.pc = "count" /\ u.page = page
               /\ u.first = (IF r.offset = 0 THEN n ELSE r.first)
               /\ u.limit = r.limit /\ u.offset = r.offset /\ u.seen = r.seen
<1> DEFINE u == Fetched(r, page, n)
<1>1. /\ DOMAIN u = DOMAIN r /\ u.pc = "count" /\ u.page = page
      /\ u.first = (IF r.offset = 0 THEN n ELSE r.first)
      /\ u.limit = r.limit /\ u.offset = r.offset /\ u.seen = r.seen /\ u.from = r.from
    BY DEF Fetched, PagesFields
<1>2. r.from = "telemetry" => u.dir = r.dir /\ u.filter = r.filter
    BY DEF Fetched, PagesFields
<1>3. r.from = "scores" => u.only_anomalies = r.only_anomalies
    BY DEF Fetched, PagesFields
<1> HIDE DEF u
<1>4. SameListing(r, u)
    BY <1>1, <1>2, <1>3, Zenon DEF SameListing
<1>5. PagesFields(u)
    BY <1>1, Zenon DEF PagesFields
<1> QED BY <1>1, <1>4, <1>5, Zenon DEF u

LEMMA CountedFields ==
    ASSUME NEW r, PagesFields(r), NEW more \in BOOLEAN
    PROVE  LET u == Counted(r, more)
           IN  /\ PagesFields(u) /\ SameListing(r, u) /\ u.pc = (IF more THEN "items" ELSE "done")
               /\ u.seen = r.seen \o r.page /\ u.first = r.first
               /\ u.offset = (IF more THEN r.offset + r.limit ELSE r.offset)
<1> DEFINE u == Counted(r, more)
<1>1. /\ DOMAIN u = DOMAIN r /\ u.pc = (IF more THEN "items" ELSE "done")
      /\ u.page = <<>> /\ u.seen = r.seen \o r.page /\ u.first = r.first
      /\ u.offset = (IF more THEN r.offset + r.limit ELSE r.offset)
      /\ u.limit = r.limit /\ u.from = r.from
    BY DEF Counted, PagesFields
<1>2. r.from = "telemetry" => u.dir = r.dir /\ u.filter = r.filter
    BY DEF Counted, PagesFields
<1>3. r.from = "scores" => u.only_anomalies = r.only_anomalies
    BY DEF Counted, PagesFields
<1> HIDE DEF u
<1>4. SameListing(r, u)
    BY <1>1, <1>2, <1>3, Zenon DEF SameListing
<1>5. r.offset + r.limit \in Nat /\ r.seen \o r.page \in Seq(Nat) /\ <<>> \in Seq(Nat)
    BY DEF PagesFields
<1>6. PagesFields(u)
    BY <1>1, <1>5, Zenon DEF PagesFields
<1> QED BY <1>1, <1>4, <1>6, Zenon DEF u

LEMMA FetchPaged ==
    ASSUME NEW d \in Datasets, NEW r, NEW n \in 0..Len(d), Paged(d, r, n), r.pc = "items",
           NEW s \in Injection(1..Cardinality(Rows(d, r)[n]), Rows(d, r)[n]),
           \A i, j \in DOMAIN s : i < j => ~Precedes(d, r, s[j], s[i])
    PROVE  Paged(d, Fetched(r, Page(s, r.limit, r.offset), n), n)
<1> DEFINE A == Rows(d, r)
           R == Order(d, r)
           c == Cardinality(A[n])
           page == Page(s, r.limit, r.offset)
           u == Fetched(r, page, n)
           next == r.offset + r.limit
           last == PageEnd(c, r.limit, r.offset)
           W == Range(r.seen)
           P == Between(s, r.offset + 1, last)
<1>1. n \in Nat /\ Len(d) \in Nat /\ PagesFields(r) /\ r.first <= n /\ BeforePage(d, r, n)
    BY DatasetIs DEF Paged
<1>2. r.limit \in Nat /\ r.offset \in Nat /\ r.first \in Nat /\ next \in Nat
    BY <1>1 DEF PagesFields
<1>3. A[n] \in SUBSET (1..n) /\ IsFiniteSet(A[n])
  <2>1. A[n] \in SUBSET (1..n)
      BY Zenon DEF Rows
  <2>2. IsFiniteSet(1..n)
      BY <1>1, FS_Interval
  <2> QED BY <2>1, <2>2, CountSubset
<1>4. Enumerates(s, c, A[n])
    BY <1>3, OrderOnto
<1>5. c \in Nat /\ s \in [1..c -> A[n]] /\ s \in [1..c -> Nat]
    BY <1>3, <1>4 DEF Enumerates
<1>6. Follows(s, c, R)
  <2>1. \A i, j : <<i, j>> \in R => Precedes(d, r, i, j)
      BY DEF Order
  <2>2. DOMAIN s = 1..c
      BY <1>5
  <2> QED BY <2>1, <2>2, Zenon DEF Follows
<1> HIDE DEF A, R, c
<1>7. /\ page \in Seq(Nat)
      /\ Len(page) = IF r.offset < last THEN last - r.offset ELSE 0
      /\ \A i \in 1..Len(page) : r.offset + i \in 1..c /\ page[i] = s[r.offset + i]
      /\ Range(page) = P
  <2>1. page \in Seq(Nat) /\ IsPage(page, s, c, r.limit, r.offset)
      BY <1>2, <1>5, PageIs, Zenon
  <2> QED BY <2>1, Zenon DEF IsPage
<1>8. last \in Nat /\ Len(page) \in Nat /\ r.offset + Len(page) <= next
      /\ (next <= c => Len(page) = r.limit)
  <2>1. Len(page) = IF r.offset < last THEN last - r.offset ELSE 0
      BY <1>7
  <2> HIDE DEF page
  <2> QED BY <1>2, <1>5, <2>1 DEF PageEnd
<1> HIDE DEF page, next, last, P
<1>9. /\ PagesFields(u) /\ SameListing(r, u) /\ u.pc = "count" /\ u.page = page
      /\ u.first = (IF r.offset = 0 THEN n ELSE r.first)
      /\ u.limit = r.limit /\ u.offset = r.offset /\ u.seen = r.seen
    BY <1>1, <1>7, FetchedFields, Zenon
<1> HIDE DEF u
<1>10. /\ Rows(d, u) = A /\ Order(d, u) = R /\ (Clear(u) <=> Clear(r))
       /\ u.first = r.first => (Steady(d, u) <=> Steady(d, r))
  <2>1. r.from = "telemetry" \/ r.from = "scores"
      BY <1>1, Zenon DEF PagesFields
  <2> QED BY <1>9, <2>1, SameRows, Zenon DEF A, R
<1>11. u.first \in 0..n /\ u.first <= n
    BY <1>1, <1>2, <1>9
<1>12. ASSUME Clear(r)
       PROVE  /\ Covering(A, R, n, u.first, W \cup P, next)
              /\ Len(page) = r.limit \/ A[u.first] \subseteq (W \cup P)
              /\ Steady(d, u) => /\ Placed(A, R, n, r.seen, Len(r.seen), 0, r.offset)
                                 /\ Placed(A, R, n, page, Len(page), r.offset, next)
  <2>1. Listing(A, R, Len(d))
      BY <1>1, <1>12, RowsList, Zenon DEF PagesFields, A, R
  <2>2. /\ r.offset = 0 => r.seen = <<>>
        /\ r.offset = 0 \/ Covering(A, R, n, r.first, W, r.offset)
        /\ Steady(d, r) => Placed(A, R, n, r.seen, Len(r.seen), 0, r.offset)
      BY <1>1, <1>12, Zenon DEF BeforePage, A, R
  <2>3. r.offset = 0 \/ Covering(A, R, n, u.first, W, r.offset)
      BY <1>9, <2>2, Zenon
  <2>4. Covering(A, R, n, u.first, W \cup P, next)
    <3>1. last = (IF next <= c THEN next ELSE c) /\ P = Between(s, r.offset + 1, last)
        BY Zenon DEF last, P, PageEnd, next
    <3> QED BY <1>2, <1>4, <1>6, <1>8, <1>11, <2>1, <2>3, <3>1, CoverPage, Zenon
  <2>5. next <= c \/ c <= next
      BY <1>2, <1>5
  <2>6. c <= next => A[u.first] \subseteq (W \cup P)
      BY <1>2, <2>1, <2>4, CoverEnds, Zenon DEF c
  <2>7. ASSUME Steady(d, u) PROVE Placed(A, R, n, r.seen, Len(r.seen), 0, r.offset)
    <3>1. CASE r.offset = 0
      <4>1. Len(r.seen) = 0 /\ 1..0 = {}
          BY <2>2, <3>1
      <4> QED BY <4>1, Zenon DEF Placed
    <3>2. CASE r.offset # 0
        BY <1>9, <1>10, <2>2, <2>7, <3>2, Zenon
    <3> QED BY <3>1, <3>2
  <2>8. Placed(A, R, n, page, Len(page), r.offset, next)
      BY <1>2, <1>4, <1>6, <1>7, <1>8, <2>1, PlacedPage, Zenon
  <2> QED BY <1>8, <2>4, <2>5, <2>6, <2>7, <2>8, Zenon
<1>13. AfterPage(d, u, n)
    BY <1>7, <1>9, <1>10, <1>12, Zenon DEF AfterPage, next
<1>14. u.pc # "items" /\ u.pc # "done"
    BY <1>9
<1> QED BY <1>9, <1>11, <1>13, <1>14, Zenon DEF Paged, u, page

LEMMA CountPaged ==
    ASSUME NEW d \in Datasets, NEW r, NEW n \in 0..Len(d), Paged(d, r, n), r.pc = "count",
           NEW more \in BOOLEAN, more <=> r.offset + Len(r.page) < Cardinality(Rows(d, r)[n])
    PROVE  Paged(d, Counted(r, more), n)
<1> DEFINE A == Rows(d, r)
           R == Order(d, r)
           u == Counted(r, more)
           next == r.offset + r.limit
           W == Range(r.seen) \cup Range(r.page)
<1>1. PagesFields(r) /\ r.first <= n /\ AfterPage(d, r, n)
    BY DEF Paged
<1>2. /\ r.limit \in Nat \ {0} /\ r.offset \in Nat /\ r.first \in Nat /\ next \in Nat /\ next # 0
      /\ r.offset <= next /\ Len(r.page) \in Nat /\ Len(r.seen) \in Nat
    BY <1>1 DEF PagesFields
<1>3. /\ PagesFields(u) /\ SameListing(r, u) /\ u.pc = (IF more THEN "items" ELSE "done")
      /\ u.seen = r.seen \o r.page /\ u.first = r.first
      /\ u.offset = (IF more THEN r.offset + r.limit ELSE r.offset)
    BY <1>1, CountedFields, Zenon
<1> HIDE DEF u
<1>4. /\ Rows(d, u) = A /\ Order(d, u) = R /\ (Clear(u) <=> Clear(r))
      /\ Steady(d, u) <=> Steady(d, r)
  <2>1. r.from = "telemetry" \/ r.from = "scores"
      BY <1>1, Zenon DEF PagesFields
  <2>2. /\ Rows(d, u) = Rows(d, r) /\ Order(d, u) = Order(d, r) /\ (Clear(u) <=> Clear(r))
        /\ u.first = r.first => (Steady(d, u) <=> Steady(d, r))
      BY <1>3, <2>1, SameRows, Zenon
  <2> QED BY <1>3, <2>2, Zenon
<1>5. /\ Len(u.seen) = Len(r.seen) + Len(r.page)
      /\ \A x \in 1..Len(r.seen) : u.seen[x] = r.seen[x]
      /\ \A x \in 1..Len(r.page) : u.seen[Len(r.seen) + x] = r.page[x]
      /\ DOMAIN u.seen = 1..Len(u.seen)
    BY <1>1, <1>3 DEF PagesFields
<1>6. W \subseteq Range(u.seen)
  <2>1. DOMAIN r.seen = 1..Len(r.seen) /\ DOMAIN r.page = 1..Len(r.page)
      BY <1>1 DEF PagesFields
  <2>2. /\ \A x \in 1..Len(r.seen) : x \in 1..Len(u.seen)
        /\ \A x \in 1..Len(r.page) : Len(r.seen) + x \in 1..Len(u.seen)
    <3> DEFINE k == Len(r.seen)
               l == Len(r.page)
               m == Len(u.seen)
    <3>1. k \in Nat /\ l \in Nat /\ m = k + l
        BY <1>2, <1>5, Zenon
    <3> HIDE DEF k, l, m
    <3>2. (\A x \in 1..k : x \in 1..m) /\ (\A x \in 1..l : k + x \in 1..m)
        BY <3>1
    <3> QED BY <3>2, Zenon DEF k, l, m
  <2>3. \A x \in DOMAIN r.seen : r.seen[x] \in Range(u.seen)
      BY <1>5, <2>1, <2>2 DEF Range
  <2>4. \A x \in DOMAIN r.page : r.page[x] \in Range(u.seen)
      BY <1>5, <2>1, <2>2, Zenon DEF Range
  <2> QED BY <2>3, <2>4, Zenon DEF Range
<1> HIDE DEF A, R, next, W
<1>7. ASSUME Clear(r)
      PROVE  /\ Covering(A, R, n, r.first, W, next)
             /\ ~more => A[r.first] \subseteq W
             /\ Steady(d, r) => Placed(A, R, n, u.seen, Len(u.seen), 0, next)
  <2>1. Listing(A, R, Len(d))
      BY <1>1, <1>7, RowsList, Zenon DEF PagesFields, A, R
  <2>2. /\ Covering(A, R, n, r.first, W, next)
        /\ Len(r.page) = r.limit \/ A[r.first] \subseteq W
        /\ Steady(d, r) => /\ Placed(A, R, n, r.seen, Len(r.seen), 0, r.offset)
                           /\ Placed(A, R, n, r.page, Len(r.page), r.offset, next)
      BY <1>1, <1>7, Zenon DEF AfterPage, A, R, W, next
  <2>3. ASSUME ~more, Len(r.page) = r.limit PROVE A[r.first] \subseteq W
    <3>1. Cardinality(A[n]) \in Nat
        BY <2>1, ListedFinite
    <3>2. Cardinality(A[n]) <= next
        BY <1>2, <2>3, <3>1 DEF next, A
    <3> QED BY <1>2, <2>1, <2>2, <3>2, CoverEnds, Zenon
  <2>4. Steady(d, r) => Placed(A, R, n, u.seen, Len(u.seen), 0, next)
    <3>1. Steady(d, r) => Placed(A, R, n, u.seen, Len(r.seen) + Len(r.page), 0, next)
      <4>1. Joins(u.seen, r.seen, Len(r.seen), r.page, Len(r.page))
          BY <1>5, Zenon DEF Joins
      <4> QED BY <1>2, <2>1, <2>2, <4>1, PlacedJoined, Zenon
    <3> QED BY <1>5, <3>1, Zenon
  <2> QED BY <2>2, <2>3, <2>4, Zenon
<1>8. ASSUME more PROVE BeforePage(d, u, n)
  <2>1. u.offset = next /\ u.offset # 0
      BY <1>2, <1>3, <1>8 DEF next
  <2>2. Clear(r) => Covering(A, R, n, r.first, Range(u.seen), next)
      BY <1>6, <1>7, Zenon DEF Covering
  <2> QED BY <1>3, <1>4, <1>7, <2>1, <2>2, Zenon DEF BeforePage
<1>9. ASSUME ~more PROVE AfterPages(d, u)
  <2>1. Clear(u) => Rows(d, u)[u.first] \subseteq Range(u.seen)
      BY <1>3, <1>4, <1>6, <1>7, <1>9, Zenon
  <2>2. Clear(u) /\ Steady(d, u) => IsInjective(u.seen)
    <3>1. SUFFICES ASSUME Placed(A, R, n, u.seen, Len(u.seen), 0, next) PROVE IsInjective(u.seen)
        BY <1>4, <1>7, Zenon
    <3> QED BY <1>5, <3>1, Zenon DEF IsInjective, Placed
  <2> QED BY <2>1, <2>2, Zenon DEF AfterPages
<1>10. /\ u.pc = "items" => more
       /\ u.pc = "done" => ~more
       /\ u.pc # "count"
    BY <1>3
<1> QED BY <1>1, <1>3, <1>8, <1>9, <1>10, Zenon DEF Paged, u

LEMMA FirstPage ==
    ASSUME NEW d \in Datasets, NEW r, PagesFields(r), r.pc = "items", r.offset = 0, r.first = 0,
           r.seen = <<>>, NEW n \in Nat
    PROVE  Paged(d, r, n)
<1>1. Len(r.seen) = 0 /\ 1..0 = {} /\ 0 <= n
    OBVIOUS
<1>2. \A A, R : Placed(A, R, n, r.seen, Len(r.seen), 0, r.offset)
    BY <1>1, Zenon DEF Placed
<1>3. BeforePage(d, r, n)
    BY <1>2, Zenon DEF BeforePage
<1>4. r.pc # "count" /\ r.pc # "done"
    OBVIOUS
<1> QED BY <1>1, <1>3, <1>4, Zenon DEF Paged

-----------------------------------------------------------------------------
(* The most frequent groups *)

LEMMA GroupsFinite ==
    ASSUME NEW T, NEW S, IsFiniteSet(S), NEW column
    PROVE  /\ IsFiniteSet(Groups(T, S, column)) /\ Cardinality(Groups(T, S, column)) \in Nat
           /\ \A g : GroupSize(T, S, column, g) \in Nat
<1> DEFINE f == [i \in S |-> T[i][column]]
<1>1. {f[i] : i \in S} = Groups(T, S, column)
    BY Zenon DEF Groups
<1>2. IsFiniteSet({f[i] : i \in S})
    BY FiniteImage, Zenon
<1>3. IsFiniteSet(Groups(T, S, column))
    BY <1>1, <1>2, Zenon
<1>4. Cardinality(Groups(T, S, column)) \in Nat
    BY <1>3, FS_CardinalityType
<1>5. ASSUME NEW g PROVE GroupSize(T, S, column, g) \in Nat
  <2>1. {i \in S : T[i][column] = g} \in SUBSET S
      BY Zenon
  <2>2. Cardinality({i \in S : T[i][column] = g}) \in Nat
      BY <2>1, CountSubset, Zenon
  <2> QED BY <2>2, Zenon DEF GroupSize, CountIn
<1> QED BY <1>3, <1>4, <1>5, Zenon

\* The first k groups.
FirstGroups(T, S, column, items, k) ==
    LET G == Groups(T, S, column)
        listed == Range(items)
    IN  /\ Len(items) = IF k <= Cardinality(G) THEN k ELSE Cardinality(G)
        /\ G \ listed # {} <=> Cardinality(G) > k
        /\ listed \subseteq G
        /\ \A g \in listed, h \in G \ listed :
              GroupSize(T, S, column, g) >= GroupSize(T, S, column, h)

LEMMA FirstGroupsOf ==
    ASSUME NEW T, NEW S, IsFiniteSet(S), NEW column, NEW ranked \in RankedGroups(T, S, column),
           NEW k \in Nat, NEW items, IsPage(items, ranked, Cardinality(Groups(T, S, column)), k, 0)
    PROVE  FirstGroups(T, S, column, items, k)
<1> DEFINE G == Groups(T, S, column)
           c == Cardinality(G)
           last == IF k <= c THEN k ELSE c
           size == [g \in G |-> GroupSize(T, S, column, g)]
<1>1. IsFiniteSet(G) /\ c \in Nat /\ \A g \in G : size[g] \in Nat /\ size[g] = GroupSize(T, S, column, g)
    BY GroupsFinite, Zenon
<1>2. /\ ranked \in Injection(1..c, G)
      /\ \A i, j \in DOMAIN ranked : i < j =>
            ~(GroupSize(T, S, column, ranked[j]) > GroupSize(T, S, column, ranked[i]))
    BY Zenon DEF RankedGroups, Orderings
<1>3. Enumerates(ranked, c, G)
    BY <1>1, <1>2, OrderOnto
<1>4. ranked \in [1..c -> G]
    BY <1>3, Zenon DEF Enumerates
<1> HIDE DEF G, c, size
<1>5. \A i, j \in 1..c : i < j => ~(size[ranked[j]] > size[ranked[i]])
  <2>1. DOMAIN ranked = 1..c /\ \A i \in 1..c : ranked[i] \in G
      BY <1>4
  <2>2. ASSUME NEW i \in 1..c, NEW j \in 1..c, i < j PROVE ~(size[ranked[j]] > size[ranked[i]])
    <3>1. /\ size[ranked[i]] = GroupSize(T, S, column, ranked[i])
          /\ size[ranked[j]] = GroupSize(T, S, column, ranked[j])
        BY <1>1, <2>1, Zenon
    <3>2. ~(GroupSize(T, S, column, ranked[j]) > GroupSize(T, S, column, ranked[i]))
        BY <1>2, <2>1, <2>2, Zenon
    <3> QED BY <3>1, <3>2, Zenon
  <2> QED BY <2>2, Zenon
<1>6. last \in 0..c /\ (last < c <=> c > k)
    BY <1>1
<1>7. PageEnd(c, k, 0) = last /\ Len(items) = last /\ Range(items) = Between(ranked, 1, last)
  <2>1. PageEnd(c, k, 0) = last
      BY <1>1 DEF PageEnd
  <2>2. /\ Len(items) = IF 0 < last THEN last - 0 ELSE 0
        /\ Range(items) = Between(ranked, 0 + 1, last)
      BY <2>1, Zenon DEF IsPage, c, G
  <2>3. 0 + 1 = 1 /\ (IF 0 < last THEN last - 0 ELSE 0) = last
      BY <1>1
  <2> QED BY <2>1, <2>2, <2>3, Zenon
<1> HIDE DEF last
<1>8. Range(items) = FirstOf(ranked, last)
    BY <1>7, Zenon DEF Between, FirstOf
<1>9. /\ G \ FirstOf(ranked, last) # {} <=> last < c
      /\ \A g \in FirstOf(ranked, last), h \in G \ FirstOf(ranked, last) : size[g] >= size[h]
    BY <1>1, <1>3, <1>5, <1>6, TopOnes, Zenon
<1>10. FirstOf(ranked, last) \subseteq G
  <2>1. \A i \in 1..last : i \in 1..c
      BY <1>1, <1>6
  <2> QED BY <1>4, <2>1 DEF FirstOf
<1> QED BY <1>1, <1>6, <1>7, <1>8, <1>9, <1>10, Zenon DEF FirstGroups, G, c, last

TopOf(T, column, k, answer, total) ==
    LET S == DOMAIN T
        listed == Range(answer.items)
        left == Groups(T, S, column) \ listed
    IN  /\ Len(answer.items) <= k
        /\ answer.truncated <=> left # {}
        /\ \A g \in listed, h \in left : GroupSize(T, S, column, g) >= GroupSize(T, S, column, h)
        /\ ~answer.truncated => total <= Len(answer.items)

\* GetTopK lists at most k groups, none of which is smaller than one it leaves out, and
\* says that it is truncated exactly when it leaves one out, whichever order the
\* database gives tied groups.
THEOREM TopKIs ==
    ASSUME NEW T, IsFiniteSet(DOMAIN T), NEW column, NEW k \in Nat,
           NEW answer \in TopK(T, DOMAIN T, column, k), NEW total \in Int,
           total <= CountDistinct(T, DOMAIN T, column)
    PROVE  TopOf(T, column, k, answer, total)
<1> DEFINE S == DOMAIN T
           G == Groups(T, S, column)
           c == Cardinality(G)
<1>1. PICK ranked \in RankedGroups(T, S, column) :
          answer = [items |-> Page(Page(ranked, k + 1, 0), k, 0),
                    truncated |-> k >= 0 /\ Len(Page(ranked, k + 1, 0)) > k]
    BY Zenon DEF TopK
<1> DEFINE rows == Page(ranked, k + 1, 0)
           items == Page(rows, k, 0)
<1>2. IsFiniteSet(G) /\ c \in Nat
    BY GroupsFinite, Zenon
<1>3. ranked \in [1..c -> G]
  <2>1. ranked \in Injection(1..c, G)
      BY Zenon DEF RankedGroups, Orderings
  <2> QED BY <2>1, Zenon DEF Injection
<1> HIDE DEF S, G, c
<1>4. rows \in Seq(G) /\ IsPage(rows, ranked, c, k + 1, 0)
  <2>1. k + 1 \in Nat /\ 0 \in Nat
      OBVIOUS
  <2> QED BY <1>2, <1>3, <2>1, PageIs, Zenon
<1> HIDE DEF rows
<1> DEFINE m == Len(rows)
<1>5. m \in Nat /\ m = (IF k + 1 <= c THEN k + 1 ELSE c) /\ rows \in [1..m -> G]
      /\ \A i \in 1..m : i \in 1..c /\ rows[i] = ranked[i]
  <2>1. /\ m = IF 0 < PageEnd(c, k + 1, 0) THEN PageEnd(c, k + 1, 0) - 0 ELSE 0
        /\ \A i \in 1..m : 0 + i \in 1..c /\ rows[i] = ranked[0 + i]
      BY <1>4, Zenon DEF IsPage
  <2>2. m \in Nat /\ rows \in [1..m -> G]
      BY <1>4
  <2>3. m = (IF k + 1 <= c THEN k + 1 ELSE c)
      BY <1>2, <2>1 DEF PageEnd
  <2>4. \A i \in 1..m : 0 + i = i
      BY <2>2
  <2> QED BY <2>1, <2>2, <2>3, <2>4, Zenon
<1> HIDE DEF m
<1>6. items \in Seq(G) /\ IsPage(items, rows, m, k, 0)
  <2>1. 0 \in Nat
      OBVIOUS
  <2> QED BY <1>5, <2>1, PageIs, Zenon
<1>7. IsPage(items, ranked, c, k, 0)
  <2> HIDE DEF items
  <2> DEFINE last == PageEnd(m, k, 0)
  <2>1. last = PageEnd(c, k, 0) /\ last <= m /\ last \in Nat
      BY <1>2, <1>5 DEF PageEnd
  <2>2. /\ Len(items) = IF 0 < last THEN last - 0 ELSE 0
        /\ \A i \in 1..Len(items) : 0 + i \in 1..m /\ items[i] = rows[0 + i]
        /\ Range(items) = Between(rows, 0 + 1, last)
      BY <1>6, Zenon DEF IsPage
  <2> HIDE DEF last
  <2>3. \A i \in (0 + 1)..last : i \in 1..m
      BY <1>5, <2>1
  <2>4. Between(rows, 0 + 1, last) = Between(ranked, 0 + 1, last)
      BY <1>5, <2>3, Zenon DEF Between
  <2> QED BY <1>5, <2>1, <2>2, <2>4, Zenon DEF IsPage
<1> HIDE DEF items
<1>8. /\ Len(items) = IF k <= c THEN k ELSE c
      /\ G \ Range(items) # {} <=> c > k
      /\ \A g \in Range(items), h \in G \ Range(items) :
            GroupSize(T, S, column, g) >= GroupSize(T, S, column, h)
  <2>1. FirstGroups(T, S, column, items, k)
      BY <1>1, <1>7, FirstGroupsOf, Zenon DEF S, c, G
  <2> QED BY <2>1, Zenon DEF FirstGroups, c, G
<1>9. answer.items = items /\ answer.truncated = (m > k)
  <2>1. answer.items = items /\ answer.truncated = (k >= 0 /\ m > k)
      BY <1>1 DEF items, m, rows
  <2>2. k >= 0
      OBVIOUS
  <2> QED BY <2>1, <2>2
<1>10. m > k <=> c > k
    BY <1>2, <1>5
<1>11. total <= c
  <2>1. CountDistinct(T, S, column) = Cardinality(G \ {"null"})
      BY Zenon DEF CountDistinct, G
  <2>2. Cardinality(G \ {"null"}) \in Nat /\ Cardinality(G \ {"null"}) <= c
    <3>1. G \ {"null"} \in SUBSET G
        OBVIOUS
    <3> QED BY <1>2, <3>1, CountSubset, Zenon DEF c
  <2> QED BY <1>2, <2>1, <2>2 DEF S
<1>12. Len(items) <= k /\ (~(c > k) => total <= Len(items))
    BY <1>2, <1>8, <1>11
<1> QED BY <1>8, <1>9, <1>10, <1>12, Zenon DEF TopOf, G, S

Distinct(d, n, column) == Cardinality({d[i][column] : i \in 1..n} \ {"null"})

LEMMA DistinctIs ==
    ASSUME NEW d \in Datasets, NEW n \in 0..Len(d), NEW column
    PROVE  /\ IsFiniteSet(1..n) /\ DOMAIN SubSeq(d, 1, n) = 1..n
           /\ CountDistinct(SubSeq(d, 1, n), 1..n, column) = Distinct(d, n, column)
           /\ Distinct(d, n, column) \in Nat
           /\ \A m \in 0..Len(d) : n <= m => Distinct(d, n, column) <= Distinct(d, m, column)
<1> DEFINE T == SubSeq(d, 1, n)
           Names(k) == {d[i][column] : i \in 1..k} \ {"null"}
<1>1. d \in Seq(Record) /\ Len(d) \in Nat /\ n \in Nat
    BY DatasetIs
<1>2. DOMAIN T = 1..n /\ \A i \in 1..n : T[i] = d[i]
    BY <1>1
<1>3. IsFiniteSet(1..n)
    BY <1>1, FS_Interval
<1>4. CountDistinct(T, 1..n, column) = Distinct(d, n, column)
  <2>1. Groups(T, 1..n, column) = {d[i][column] : i \in 1..n}
      BY <1>2, Zenon DEF Groups
  <2> QED BY <2>1, Zenon DEF CountDistinct, Distinct
<1>5. ASSUME NEW m \in 0..Len(d) PROVE IsFiniteSet(Names(m)) /\ Cardinality(Names(m)) \in Nat
  <2>1. m \in Nat /\ IsFiniteSet(1..m)
      BY <1>1, FS_Interval
  <2>2. IsFiniteSet(Groups(d, 1..m, column))
      BY <2>1, GroupsFinite, Zenon
  <2>3. Names(m) \in SUBSET Groups(d, 1..m, column)
      BY Zenon DEF Groups
  <2> QED BY <2>2, <2>3, CountSubset, Zenon
<1>6. ASSUME NEW m \in 0..Len(d), n <= m PROVE Cardinality(Names(n)) <= Cardinality(Names(m))
  <2>1. \A i \in 1..n : i \in 1..m
      BY <1>1, <1>6
  <2>2. Names(n) \in SUBSET Names(m)
      BY <2>1, Zenon
  <2> QED BY <1>5, <2>2, CountSubset, Zenon
<1> QED BY <1>2, <1>3, <1>4, <1>5, <1>6, Zenon DEF Distinct

-----------------------------------------------------------------------------
(* The summary *)

AnomaliesOf(T) == {i \in DOMAIN T : IsAnomaly(T[i])}
TypeSizes(T, types) ==
    [t \in Range(types.listed) |-> GroupSize(T, AnomaliesOf(T), "anomaly_type", t)]
SummaryOf(T, types, anomalies, row_count) ==
    LET total == SumFunction(TypeSizes(T, types)) + types.other
    IN  /\ total = Cardinality(AnomaliesOf(T))
        /\ anomalies <= total /\ anomalies <= row_count

LEMMA TypesAddUp ==
    ASSUME NEW T, IsFiniteSet(DOMAIN T), NEW topk \in Int, NEW types \in TypeCounts(T, topk)
    PROVE  SumFunction(TypeSizes(T, types)) + types.other = Cardinality(AnomaliesOf(T))
<1> DEFINE all == AnomaliesOf(T)
           G == Groups(T, all, "anomaly_type")
           sizes == TypeSizes(T, types)
           B == Range(types.listed)
           key == [i \in all |-> T[i].anomaly_type]
<1>1. IsFiniteSet(all)
  <2>1. all \in SUBSET DOMAIN T
      BY Zenon DEF AnomaliesOf
  <2> QED BY <2>1, CountSubset, Zenon
<1>2. PICK ranked \in RankedGroups(T, all, "anomaly_type") :
          types = [listed |-> Page(ranked, topk, 0),
                   other |-> CountIn(all, LAMBDA i : T[i].anomaly_type \notin Range(Page(ranked, topk, 0)))]
    BY Zenon DEF TypeCounts, AnomaliesOf
<1>3. types.listed = Page(ranked, topk, 0)
    BY <1>2, Zenon
<1>4. types.other = Cardinality({i \in all : T[i].anomaly_type \notin Range(Page(ranked, topk, 0))})
    BY <1>2, Zenon DEF CountIn
<1>5. IsFiniteSet(G) /\ Cardinality(G) \in Nat
    BY <1>1, GroupsFinite, Zenon
<1>6. IsFiniteSet(B)
  <2>1. ranked \in Injection(1..Cardinality(G), G)
      BY <1>2, Zenon DEF RankedGroups, Orderings
  <2>2. ranked \in [1..Cardinality(G) -> G] /\ 0 \in Nat
      BY <2>1 DEF Injection
  <2> DEFINE limit == IF topk < 0 THEN 0 ELSE topk
  <2>6. limit \in Nat
      OBVIOUS
  <2>7. types.listed = Page(ranked, limit, 0)
      BY <1>3, <1>5, <2>2, NegativeLimit, Zenon
  <2> HIDE DEF limit
  <2>3. IsPage(types.listed, ranked, Cardinality(G), limit, 0)
      BY <1>5, <2>2, <2>6, <2>7, PageIs, Zenon
  <2>4. FirstGroups(T, all, "anomaly_type", types.listed, limit)
      BY <1>1, <1>2, <2>3, <2>6, FirstGroupsOf, Zenon
  <2>5. B \in SUBSET G
      BY <2>4, Zenon DEF FirstGroups
  <2> QED BY <1>5, <2>5, CountSubset, Zenon
<1> HIDE DEF all
<1>7. \A i \in all : key[i] = T[i].anomaly_type /\ key[i] = T[i]["anomaly_type"]
    BY Zenon
<1>8. DOMAIN sizes = B /\ \A b \in B : sizes[b] = Cardinality({i \in all : key[i] = b})
  <2>1. DOMAIN sizes = B /\ \A b \in B : sizes[b] = Cardinality({i \in all : T[i]["anomaly_type"] = b})
      BY Zenon DEF TypeSizes, GroupSize, CountIn, all
  <2>2. \A b : {i \in all : T[i]["anomaly_type"] = b} = {i \in all : key[i] = b}
      BY <1>7, Zenon
  <2> QED BY <2>1, <2>2, Zenon
<1> HIDE DEF key, sizes, B
<1>9. SumFunction(sizes) = Cardinality({i \in all : key[i] \in B})
  <2>1. Counts(sizes, B, all, key)
      BY <1>8, Zenon DEF Counts
  <2>2. SumFunctionOnSet(sizes, B) = Cardinality(Keyed(all, key, B))
      BY <1>1, <1>6, <2>1, CountByKey, Zenon
  <2> QED BY <1>8, <2>2, Zenon DEF SumFunction, Keyed
<1>10. types.other = Cardinality(all \ {i \in all : key[i] \in B})
  <2>1. \A i \in all : T[i].anomaly_type \notin Range(Page(ranked, topk, 0)) <=> key[i] \notin B
      BY <1>3, <1>7, Zenon DEF B
  <2>2. {i \in all : T[i].anomaly_type \notin Range(Page(ranked, topk, 0))}
            = {i \in all : key[i] \notin B}
      BY <2>1, Zenon
  <2>3. {i \in all : key[i] \notin B} = all \ {i \in all : key[i] \in B}
      BY Zenon
  <2> QED BY <1>4, <2>2, <2>3, Zenon
<1>11. {i \in all : key[i] \in B} \in SUBSET all
    BY Zenon
<1>12. Cardinality(all) = Cardinality({i \in all : key[i] \in B})
                            + Cardinality(all \ {i \in all : key[i] \in B})
    BY <1>1, <1>11, CountSplit, Zenon
<1> QED BY <1>9, <1>10, <1>12, Zenon DEF all, sizes

LEMMA AnomaliesIs ==
    ASSUME NEW d \in Datasets, NEW n \in 0..Len(d)
    PROVE  /\ IsFiniteSet(DOMAIN SubSeq(d, 1, n)) /\ Cardinality(AnomaliesOf(SubSeq(d, 1, n))) \in 0..n
           /\ \A m \in 0..Len(d) : n <= m => Cardinality(AnomaliesOf(SubSeq(d, 1, n)))
                                               <= Cardinality(AnomaliesOf(SubSeq(d, 1, m)))
<1> DEFINE T(k) == SubSeq(d, 1, k)
<1>1. d \in Seq(Record) /\ Len(d) \in Nat /\ n \in Nat
    BY DatasetIs
<1>2. ASSUME NEW k \in 0..Len(d)
      PROVE  /\ k \in Nat /\ DOMAIN T(k) = 1..k /\ IsFiniteSet(DOMAIN T(k)) /\ Cardinality(1..k) = k
             /\ AnomaliesOf(T(k)) = {i \in 1..k : IsAnomaly(d[i])}
             /\ IsFiniteSet(AnomaliesOf(T(k))) /\ Cardinality(AnomaliesOf(T(k))) \in Nat
             /\ Cardinality(AnomaliesOf(T(k))) <= Cardinality(1..k)
  <2>1. k \in Nat /\ DOMAIN T(k) = 1..k /\ \A i \in 1..k : T(k)[i] = d[i]
      BY <1>1
  <2>2. IsFiniteSet(1..k) /\ Cardinality(1..k) = k
      BY <2>1, FS_Interval
  <2>3. AnomaliesOf(T(k)) = {i \in 1..k : IsAnomaly(d[i])}
      BY <2>1, Zenon DEF AnomaliesOf
  <2>4. AnomaliesOf(T(k)) \in SUBSET (1..k)
      BY <2>3, Zenon
  <2> QED BY <2>1, <2>2, <2>3, <2>4, CountSubset, Zenon
<1>3. ASSUME NEW m \in 0..Len(d), n <= m
      PROVE  Cardinality(AnomaliesOf(T(n))) <= Cardinality(AnomaliesOf(T(m)))
  <2>1. \A i \in 1..n : i \in 1..m
      BY <1>1, <1>3
  <2>2. AnomaliesOf(T(n)) \in SUBSET AnomaliesOf(T(m))
      BY <1>2, <2>1, Zenon
  <2> QED BY <1>2, <2>2, CountSubset, Zenon
<1> HIDE DEF T
<1>4. Cardinality(AnomaliesOf(T(n))) \in 0..n
  <2>1. Cardinality(AnomaliesOf(T(n))) \in Nat /\ Cardinality(AnomaliesOf(T(n))) <= n
      BY <1>2, Zenon
  <2> QED BY <1>1, <2>1
<1> QED BY <1>2, <1>3, <1>4, Zenon DEF T

-----------------------------------------------------------------------------
(* The histogram *)

\* A printed number is a multiple of the precision, at most half of it away.
LEMMA PrintedIs ==
    ASSUME NEW v \in Int
    PROVE  /\ to_string(v) \in Int /\ \E m \in Int : to_string(v) = m * Precision
           /\ 2 * to_string(v) <= 2 * v + Precision /\ 2 * v <= 2 * to_string(v) + Precision
<1> DEFINE q == v \div Precision
           r == v % Precision
<1>1. Precision \in Nat \ {0}
    BY PrecisionAssumption
<1>2. q \in Int /\ r \in 0..(Precision - 1) /\ v = Precision * q + r
    BY <1>1
<1>3. to_string(v) = IF 2 * r < Precision \/ (2 * r = Precision /\ q % 2 = 0) THEN q * Precision
                     ELSE (q + 1) * Precision
    BY Zenon DEF to_string
<1> HIDE DEF q, r
<1>4. q * Precision \in Int /\ (q + 1) * Precision = q * Precision + Precision /\ Precision * q = q * Precision
    BY <1>1, <1>2
<1>5. \/ to_string(v) = q * Precision /\ 2 * r <= Precision
      \/ to_string(v) = (q + 1) * Precision /\ 2 * r >= Precision
    BY <1>1, <1>2, <1>3
<1>6. /\ to_string(v) \in Int
      /\ 2 * to_string(v) <= 2 * v + Precision /\ 2 * v <= 2 * to_string(v) + Precision
    BY <1>1, <1>2, <1>4, <1>5
<1>7. q + 1 \in Int
    BY <1>2
<1> QED BY <1>2, <1>5, <1>6, <1>7, Zenon

\* Printing does not turn a range around.
LEMMA PrintedInOrder ==
    ASSUME NEW lo \in Int, NEW hi \in Int, lo < hi
    PROVE  to_string(lo) <= to_string(hi)
<1>1. PICK a \in Int : to_string(lo) = a * Precision
    BY PrintedIs
<1>2. PICK b \in Int : to_string(hi) = b * Precision
    BY PrintedIs
<1>3. /\ to_string(lo) \in Int /\ 2 * to_string(lo) <= 2 * lo + Precision
      /\ to_string(hi) \in Int /\ 2 * hi <= 2 * to_string(hi) + Precision
    BY PrintedIs, Zenon
<1>4. Precision \in Nat \ {0}
    BY PrecisionAssumption
<1>5. to_string(lo) < to_string(hi) + Precision
    BY <1>3, <1>4
<1>6. b + 1 <= a => (b + 1) * Precision <= a * Precision
    BY <1>4, Scaled
<1>7. (b + 1) * Precision = b * Precision + Precision
    BY <1>4
<1>8. a <= b
    BY <1>1, <1>2, <1>3, <1>4, <1>5, <1>6, <1>7
<1> QED BY <1>1, <1>2, <1>4, <1>8, Scaled

\* Twice how far an edge in the query may lie from the one in the answer.
Slack(lo, hi, n) == IF to_string(lo) = lo /\ to_string(hi) = hi THEN 0 ELSE n * Precision

LEMMA EdgesMove ==
    ASSUME NEW lo \in Int, NEW hi \in Int, NEW n \in Nat \ {0}, NEW b \in 0..n
    PROVE  LET given == Edge(b, lo, hi, n)
               printed == Edge(b, to_string(lo), to_string(hi), n)
           IN  /\ given \in Int /\ printed \in Int /\ Slack(lo, hi, n) \in Int
               /\ 2 * printed <= 2 * given + Slack(lo, hi, n)
               /\ 2 * given <= 2 * printed + Slack(lo, hi, n)
<1> DEFINE given == Edge(b, lo, hi, n)
           printed == Edge(b, to_string(lo), to_string(hi), n)
           x == 2 * to_string(lo) - 2 * lo
           y == 2 * to_string(hi) - 2 * hi
           c == n - b
<1>1. Precision \in Nat \ {0}
    BY PrecisionAssumption
<1>2. to_string(lo) \in Int /\ to_string(hi) \in Int
    BY PrintedIs, Zenon
<1>3. x \in Int /\ x <= Precision /\ -Precision <= x /\ y \in Int /\ y <= Precision /\ -Precision <= y
  <2>1. /\ 2 * to_string(lo) <= 2 * lo + Precision /\ 2 * lo <= 2 * to_string(lo) + Precision
        /\ 2 * to_string(hi) <= 2 * hi + Precision /\ 2 * hi <= 2 * to_string(hi) + Precision
      BY PrintedIs, Zenon
  <2> QED BY <1>1, <1>2, <2>1
<1>4. given = lo * n + (hi - lo) * b /\ printed = to_string(lo) * n + (to_string(hi) - to_string(lo)) * b
    BY Zenon DEF Edge
<1>5. given \in Int /\ printed \in Int
    BY <1>2, <1>4
<1>6. c \in Nat /\ b \in Nat /\ n * Precision = Precision * c + Precision * b
    BY <1>1
<1>7. 2 * printed - 2 * given = x * c + y * b
    BY <1>2, <1>4
<1>8. /\ x * c \in Int /\ x * c <= Precision * c /\ (-Precision) * c <= x * c
      /\ y * b \in Int /\ y * b <= Precision * b /\ (-Precision) * b <= y * b
  <2>1. -Precision \in Int /\ Precision \in Int
      BY <1>1
  <2> HIDE DEF x, y, c
  <2> QED BY <1>3, <1>6, <2>1, Scaled
<1>9. /\ Precision * c \in Int /\ Precision * b \in Int
      /\ (-Precision) * c = -(Precision * c) /\ (-Precision) * b = -(Precision * b)
    BY <1>1, <1>6
<1>10. CASE to_string(lo) = lo /\ to_string(hi) = hi
  <2>1. Slack(lo, hi, n) = 0 /\ printed = given
      BY <1>10, Zenon DEF Slack
  <2> HIDE DEF given, printed
  <2>2. 2 * printed <= 2 * given + Slack(lo, hi, n) /\ 2 * given <= 2 * printed + Slack(lo, hi, n)
      BY <1>5, <2>1
  <2>3. Slack(lo, hi, n) \in Int
      BY <2>1
  <2> QED BY <1>5, <2>2, <2>3, Zenon DEF given, printed
<1>11. CASE ~(to_string(lo) = lo /\ to_string(hi) = hi)
  <2>1. Slack(lo, hi, n) = n * Precision
      BY <1>11, Zenon DEF Slack
  <2> HIDE DEF given, printed, x, y, c
  <2>2. 2 * printed <= 2 * given + n * Precision /\ 2 * given <= 2 * printed + n * Precision
      BY <1>5, <1>6, <1>7, <1>8, <1>9
  <2>3. n * Precision \in Int
      BY <1>1
  <2> QED BY <1>5, <2>1, <2>2, <2>3, Zenon DEF given, printed
<1> QED BY <1>10, <1>11, Zenon

\* The rows between the edges of a bin, drawn in by half of by.
Inside(T, S, lo, hi, n, b, by) ==
    {i \in S : /\ 2 * n * T[i].value >= 2 * Edge(b - 1, lo, hi, n) + by
               /\ 2 * n * T[i].value < 2 * Edge(b, lo, hi, n) - by}
InRange(T, S, lo, hi) == {i \in S : T[i].value >= lo /\ T[i].value < hi}
HistogramOf(T, S, range, counts, bins) ==
    LET n == Len(counts)
        lo == range[1]
        hi == range[2]
    IN  /\ n = bins
        /\ \A b \in 1..n : /\ Cardinality(Inside(T, S, lo, hi, n, b, Slack(lo, hi, n))) <= counts[b]
                           /\ counts[b] <= Cardinality(Inside(T, S, lo, hi, n, b, -Slack(lo, hi, n)))
        /\ SumFunction(counts) = Cardinality(InRange(T, S, to_string(lo), to_string(hi)))

\* GetHistogram counts a row in the bin between whose edges it lies unless the row is
\* closer to an edge than the rounding of the bounds in the query moves it; the bins
\* partition the rows of the printed range, for every range and number of bins that
\* the server accepts.
THEOREM HistogramIs ==
    ASSUME NEW T, NEW S, IsFiniteSet(S), \A i \in S : T[i].value \in Int,
           NEW range, range[1] \in Int, range[2] \in Int, range[1] < range[2],
           NEW n \in Nat \ {0}, ~BucketsRejected(S, range[1], range[2], n)
    PROVE  HistogramOf(T, S, range, Histogram(T, S, range[1], range[2], n), n)
<1> DEFINE lo == range[1]
           hi == range[2]
           from == to_string(lo)
           to == to_string(hi)
           slack == Slack(lo, hi, n)
           counts == Histogram(T, S, lo, hi, n)
           key == [i \in S |-> width_bucket(T[i].value, from, to, n)]
           In(b) == {i \in S : width_bucket(T[i].value, from, to, n) = b}
<1>1. n \in Nat \ {0}
    OBVIOUS
<1>2. counts = [b \in 1..n |-> Cardinality(In(b))]
    BY Zenon DEF Histogram, CountIn
<1> HIDE DEF counts
<1>3. DOMAIN counts = 1..n /\ Len(counts) = n
    BY <1>1, <1>2
<1>4. from \in Int /\ to \in Int
    BY PrintedIs, Zenon
<1>5. ASSUME NEW i \in S
      PROVE  /\ width_bucket(T[i].value, from, to, n) \in 1..n <=> T[i].value >= from /\ T[i].value < to
             /\ \A b \in 1..n : width_bucket(T[i].value, from, to, n) = b <=>
                   /\ T[i].value * n >= Edge(b - 1, from, to, n)
                   /\ T[i].value * n < Edge(b, from, to, n)
  <2>1. from # to
      BY <1>5, Zenon DEF BucketsRejected
  <2>2. from <= to
      BY PrintedInOrder, Zenon
  <2>3. from < to
      BY <1>4, <2>1, <2>2
  <2>4. BetweenEdges(T[i].value, from, to, n)
      BY <1>1, <1>4, <2>3, BucketBetweenEdges, Zenon
  <2> QED BY <2>4, Zenon DEF BetweenEdges
<1>6. ASSUME NEW b \in 1..n
      PROVE  /\ Cardinality(Inside(T, S, lo, hi, n, b, slack)) <= counts[b]
             /\ counts[b] <= Cardinality(Inside(T, S, lo, hi, n, b, -slack))
  <2> DEFINE e == Edge(b - 1, lo, hi, n)
             f == Edge(b, lo, hi, n)
             g == Edge(b - 1, from, to, n)
             h == Edge(b, from, to, n)
  <2>1. b \in 0..n /\ b - 1 \in 0..n
      OBVIOUS
  <2>2. /\ e \in Int /\ g \in Int /\ slack \in Int
        /\ 2 * g <= 2 * e + slack /\ 2 * e <= 2 * g + slack
      BY <2>1, EdgesMove, Zenon
  <2>3. f \in Int /\ h \in Int /\ 2 * h <= 2 * f + slack /\ 2 * f <= 2 * h + slack
      BY <2>1, EdgesMove, Zenon
  <2> HIDE DEF e, f, g, h, slack
  <2>4. ASSUME NEW v \in Int
        PROVE  /\ 2 * n * v >= 2 * e + slack /\ 2 * n * v < 2 * f - slack => v * n >= g /\ v * n < h
               /\ v * n >= g /\ v * n < h => 2 * n * v >= 2 * e + (-slack) /\ 2 * n * v < 2 * f - (-slack)
    <3>1. v * n \in Int /\ 2 * n * v = 2 * (v * n)
        OBVIOUS
    <3> QED BY <2>2, <2>3, <3>1
  <2>5. In(b) = {i \in S : T[i].value * n >= g /\ T[i].value * n < h}
      BY <1>5, Zenon DEF g, h
  <2>6. Inside(T, S, lo, hi, n, b, slack) \in SUBSET In(b)
      BY <2>4, <2>5, Zenon DEF Inside, e, f
  <2>7. In(b) \in SUBSET Inside(T, S, lo, hi, n, b, -slack)
      BY <2>4, <2>5, Zenon DEF Inside, e, f
  <2>8. IsFiniteSet(In(b)) /\ IsFiniteSet(Inside(T, S, lo, hi, n, b, -slack))
    <3>1. In(b) \in SUBSET S /\ Inside(T, S, lo, hi, n, b, -slack) \in SUBSET S
        BY Zenon DEF Inside
    <3> QED BY <3>1, CountSubset, Zenon
  <2>9. counts[b] = Cardinality(In(b))
      BY <1>2, Zenon
  <2> QED BY <2>6, <2>7, <2>8, <2>9, CountSubset, Zenon
<1>7. Counts(counts, 1..n, S, key)
  <2>1. \A b \in 1..n : In(b) = {i \in S : key[i] = b}
      BY Zenon
  <2> QED BY <1>2, <2>1, Zenon DEF Counts
<1>8. SumFunctionOnSet(counts, 1..n) = Cardinality(Keyed(S, key, 1..n))
  <2> HIDE DEF key
  <2>1. n \in Int /\ 1 \in Int
      BY <1>1
  <2>2. IsFiniteSet(1..n)
      BY <2>1, FS_Interval, Zenon
  <2> QED BY <1>7, <2>2, CountByKey, Zenon
<1>9. Keyed(S, key, 1..n) = InRange(T, S, from, to)
    BY <1>5, Zenon DEF Keyed, InRange
<1>10. SumFunction(counts) = Cardinality(InRange(T, S, from, to))
    BY <1>3, <1>8, <1>9, Zenon DEF SumFunction
<1> QED BY <1>3, <1>6, <1>10, Zenon DEF HistogramOf, counts

LEMMA MatchingIs ==
    ASSUME NEW d \in Datasets, NEW n \in 0..Len(d), NEW f
    PROVE  /\ IsFiniteSet(Matching(SubSeq(d, 1, n), f)) /\ Matching(SubSeq(d, 1, n), f) \in SUBSET (1..n)
           /\ \A i \in 1..n : SubSeq(d, 1, n)[i] = d[i] /\ d[i].value \in Int /\ d[i].metric_timestamp \in Nat
<1> DEFINE T == SubSeq(d, 1, n)
<1>1. d \in Seq(Record) /\ Len(d) \in Nat /\ n \in Nat
    BY DatasetIs
<1>2. DOMAIN T = 1..n /\ \A i \in 1..n : T[i] = d[i] /\ i \in 1..Len(d)
    BY <1>1
<1>3. IsFiniteSet(1..n)
    BY <1>1, FS_Interval
<1>4. Matching(T, f) \in SUBSET (1..n)
    BY <1>2, Zenon DEF Matching
<1>5. IsFiniteSet(Matching(T, f))
    BY <1>3, <1>4, CountSubset, Zenon
<1> QED BY <1>2, <1>4, <1>5, DatasetIs, Zenon

LEMMA RangeIs ==
    ASSUME NEW d \in Datasets, NEW n \in 0..Len(d), NEW lo \in Int, NEW hi \in Int
    PROVE  /\ HistogramRange(SubSeq(d, 1, n), lo, hi)[1] \in Int
           /\ HistogramRange(SubSeq(d, 1, n), lo, hi)[2] \in Int
<1> DEFINE T == SubSeq(d, 1, n)
<1>1. CASE hi <= lo /\ T # <<>>
  <2>1. d \in Seq(Record) /\ Len(d) \in Nat /\ n \in Nat
      BY DatasetIs
  <2>2. DOMAIN T = 1..n /\ \A i \in 1..n : T[i] = d[i] /\ i \in 1..Len(d)
      BY <2>1
  <2>3. n # 0
      BY <1>1, <2>1
  <2>4. 1 \in 1..n
      BY <2>1, <2>3
  <2>5. \A i \in 1..n : d[i].value \in Int
      BY <2>2, DatasetIs, Zenon
  <2>6. Values(T) \subseteq Int /\ Values(T) # {}
      BY <2>2, <2>4, <2>5, Zenon DEF Values
  <2>7. IsFiniteSet(Values(T))
    <3> DEFINE f == [i \in 1..n |-> T[i].value]
    <3>1. {f[i] : i \in 1..n} = Values(T)
        BY <2>2, Zenon DEF Values
    <3>2. IsFiniteSet(1..n)
        BY <2>1, FS_Interval
    <3>3. IsFiniteSet({f[i] : i \in 1..n})
        BY <3>2, FiniteImage, Zenon
    <3> QED BY <3>1, <3>3, Zenon
  <2>8. Min(Values(T)) \in Int /\ Max(Values(T)) \in Int
      BY <2>6, <2>7, Extremes, Zenon
  <2>9. HistogramRange(T, lo, hi) = <<Min(Values(T)), Max(Values(T))>>
      BY <1>1, Zenon DEF HistogramRange
  <2> DEFINE a == Min(Values(T))
             b == Max(Values(T))
             r == HistogramRange(T, lo, hi)
  <2> HIDE DEF T, a, b, r
  <2>10. a \in Int /\ b \in Int /\ r = <<a, b>>
      BY <2>8, <2>9, Zenon DEF a, b, r
  <2>11. r[1] \in Int /\ r[2] \in Int
      BY <2>10
  <2> QED BY <2>11, Zenon DEF r, T
<1>2. CASE ~(hi <= lo /\ T # <<>>)
  <2> DEFINE r == HistogramRange(T, lo, hi)
  <2>1. r = <<lo, hi>>
      BY <1>2, Zenon DEF HistogramRange
  <2> HIDE DEF r
  <2>2. r[1] \in Int /\ r[2] \in Int
      BY <2>1
  <2> QED BY <2>2, Zenon DEF r
<1> QED BY <1>1, <1>2, Zenon

-----------------------------------------------------------------------------
(* The time series *)

WindowFilter(a, b) == [NoFilter EXCEPT !.start_time = a, !.end_time = b]

LEMMA InWindowIs ==
    ASSUME NEW d \in Datasets, NEW n \in 0..Len(d), NEW w
    PROVE  /\ IsFiniteSet(InWindow(SubSeq(d, 1, n), w))
           /\ InWindow(SubSeq(d, 1, n), w) =
                 {i \in 1..n : /\ w[1] # None => d[i].metric_timestamp >= w[1]
                               /\ w[2] # None => d[i].metric_timestamp <= w[2]}
<1> DEFINE T == SubSeq(d, 1, n)
           f == WindowFilter(w[1], w[2])
<1>1. IsFiniteSet(Matching(T, f)) /\ \A i \in 1..n : T[i] = d[i]
    BY MatchingIs, Zenon
<1>2. DOMAIN T = 1..n
  <2>1. d \in Seq(Record) /\ Len(d) \in Nat /\ n \in Nat
      BY DatasetIs
  <2> QED BY <2>1
<1>3. InWindow(T, w) = Matching(T, f)
    BY Zenon DEF InWindow, WindowFilter
<1> DEFINE a == w[1]
           b == w[2]
<1> HIDE DEF a, b
<1>4. /\ f.host_id = "" /\ f.is_anomaly = "" /\ f.anomaly_type = ""
      /\ f.start_time = w[1] /\ f.end_time = w[2]
  <2>1. f = WindowFilter(a, b)
      BY Zenon DEF a, b
  <2> HIDE DEF f
  <2>2. /\ f.host_id = "" /\ f.is_anomaly = "" /\ f.anomaly_type = ""
        /\ f.start_time = a /\ f.end_time = b
      BY <2>1 DEF WindowFilter, NoFilter
  <2> QED BY <2>2, Zenon DEF a, b
<1> HIDE DEF f, T
<1>5. Matching(T, f) = {i \in DOMAIN T : /\ w[1] # None => T[i].metric_timestamp >= w[1]
                                         /\ w[2] # None => T[i].metric_timestamp <= w[2]}
    BY <1>4, Zenon DEF Matching
<1>6. {i \in DOMAIN T : /\ w[1] # None => T[i].metric_timestamp >= w[1]
                        /\ w[2] # None => T[i].metric_timestamp <= w[2]}
        = {i \in 1..n : /\ w[1] # None => d[i].metric_timestamp >= w[1]
                        /\ w[2] # None => d[i].metric_timestamp <= w[2]}
    BY <1>1, <1>2, Zenon
<1> QED BY <1>1, <1>3, <1>5, <1>6, Zenon DEF T

LEMMA InWindowIn ==
    ASSUME NEW d \in Datasets, NEW n \in 0..Len(d), NEW w
    PROVE  IsFiniteSet(InWindow(SubSeq(d, 1, n), w)) /\ InWindow(SubSeq(d, 1, n), w) \in SUBSET (1..n)
<1>1. IsFiniteSet(InWindow(SubSeq(d, 1, n), w))
    BY InWindowIs, Zenon
<1>2. DOMAIN SubSeq(d, 1, n) = 1..n
  <2>1. d \in Seq(Record) /\ Len(d) \in Nat /\ n \in Nat
      BY DatasetIs
  <2> QED BY <2>1
<1>3. \A T : InWindow(T, w) \in SUBSET (DOMAIN T)
    BY Zenon DEF InWindow, Matching
<1> QED BY <1>1, <1>2, <1>3, Zenon

\* The records of a bucket.
InBucket(d, S, b, size) == {i \in S : d[i].metric_timestamp \in b..(b + size - 1)}
SeriesOf(d, S, items, size) ==
    /\ SumFunction(items) = Cardinality(S)
    /\ \A b \in DOMAIN items : items[b] = Cardinality(InBucket(d, S, b, size))

LEMMA SeriesIs ==
    ASSUME NEW d \in Datasets, NEW n \in 0..Len(d), NEW S \in SUBSET (1..n), IsFiniteSet(S),
           NEW size \in Nat \ {0}
    PROVE  SeriesOf(d, S, GetTimeSeries(SubSeq(d, 1, n), S, size), size)
<1> DEFINE key == [i \in S |-> BucketOf(d[i].metric_timestamp, size)]
           B == {key[i] : i \in S}
           items == GetTimeSeries(SubSeq(d, 1, n), S, size)
<1>1. \A i \in S : SubSeq(d, 1, n)[i] = d[i] /\ d[i].metric_timestamp \in Nat
    BY MatchingIs, Zenon
<1>2. \A i \in S : key[i] = BucketOf(SubSeq(d, 1, n)[i].metric_timestamp, size)
    BY <1>1, Zenon
<1>3. items = [b \in B |-> Cardinality({i \in S : key[i] = b})]
  <2>1. items = [b \in {BucketOf(SubSeq(d, 1, n)[i].metric_timestamp, size) : i \in S} |->
                    Cardinality({i \in S : BucketOf(SubSeq(d, 1, n)[i].metric_timestamp, size) = b})]
      BY Zenon DEF GetTimeSeries, CountIn
  <2> HIDE DEF key, items
  <2>2. {BucketOf(SubSeq(d, 1, n)[i].metric_timestamp, size) : i \in S} = {key[i] : i \in S}
      BY <1>2, Zenon
  <2>3. \A b : {i \in S : BucketOf(SubSeq(d, 1, n)[i].metric_timestamp, size) = b} = {i \in S : key[i] = b}
      BY <1>2, Zenon
  <2> QED BY <2>1, <2>2, <2>3, Zenon
<1>4. ASSUME NEW i \in S, NEW j \in S
      PROVE  key[j] = key[i] <=> d[j].metric_timestamp \in key[i]..(key[i] + size - 1)
  <2> DEFINE t == d[j].metric_timestamp
             u == d[i].metric_timestamp
  <2>1. t \in Nat /\ u \in Nat /\ key[j] = BucketOf(t, size) /\ key[i] = BucketOf(u, size)
      BY <1>1, Zenon
  <2> HIDE DEF t, u, key
  <2>2. BucketOf(t, size) = BucketOf(u, size) <=>
            t \in BucketOf(u, size)..(BucketOf(u, size) + size - 1)
      BY <2>1, BucketContains, Zenon
  <2> QED BY <2>1, <2>2, Zenon DEF t
<1> HIDE DEF key, items
<1>5. DOMAIN items = B /\ \A b \in B : items[b] = Cardinality({i \in S : key[i] = b})
    BY <1>3, Zenon
<1>6. \A b \in B : {i \in S : key[i] = b} = InBucket(d, S, b, size)
    BY <1>4, Zenon DEF InBucket
<1>7. Counts(items, B, S, key)
    BY <1>5, Zenon DEF Counts
<1>8. IsFiniteSet(B)
    BY FiniteImage, Zenon
<1> HIDE DEF B
<1>9. SumFunctionOnSet(items, B) = Cardinality(Keyed(S, key, B))
    BY <1>7, <1>8, CountByKey, Zenon
<1>10. Keyed(S, key, B) = S
    BY Zenon DEF Keyed, B
<1> QED BY <1>5, <1>6, <1>9, <1>10, Zenon DEF SeriesOf, SumFunction, items

LEMMA BucketSize ==
    ASSUME NEW bucket \in {"1m", "auto"}, NEW a \in Int, NEW b \in Int
    PROVE  BucketSeconds(bucket, a, b) \in Nat \ {0}
<1>1. Day \in Nat \ {0} /\ 7 * Day \in Nat \ {0}
    BY DEF Day
<1>2. SelectBucketSeconds(a, b) \in Nat \ {0}
    BY <1>1 DEF SelectBucketSeconds
<1>3. bucket = "1m" => BucketSeconds(bucket, a, b) = 60
    BY DEF BucketSeconds
<1>4. bucket = "auto" => BucketSeconds(bucket, a, b) = SelectBucketSeconds(a, b)
    BY DEF BucketSeconds
<1>5. 60 \in Nat \ {0}
    OBVIOUS
<1> QED BY <1>2, <1>3, <1>4, <1>5, Zenon

\* w is the window before the window v.
Previous(v, w) ==
    /\ v[1] \in Nat /\ v[2] \in Nat /\ v[1] < v[2]
    /\ w[1] = 2 * v[1] - v[2] /\ w[2] = v[1]

ComparedOf(d, v, S, n, B, before) ==
    /\ SumFunction(before) = Cardinality(B)
    /\ \A i \in B : d[i].metric_timestamp >= 2 * v[1] - v[2]
    /\ \A i \in 1..n : d[i].metric_timestamp \in (2 * v[1] - v[2])..v[1] => i \in B
    /\ \A i \in S \cap B : d[i].metric_timestamp = v[1]

LEMMA ComparedIs ==
    ASSUME NEW d \in Datasets, NEW m \in 0..Len(d), NEW n \in 0..Len(d), NEW v, NEW w, Previous(v, w),
           NEW before, SumFunction(before) = Cardinality(InWindow(SubSeq(d, 1, n), w))
    PROVE  ComparedOf(d, v, InWindow(SubSeq(d, 1, m), v), n, InWindow(SubSeq(d, 1, n), w), before)
<1> DEFINE S == InWindow(SubSeq(d, 1, m), v)
           B == InWindow(SubSeq(d, 1, n), w)
           t(i) == d[i].metric_timestamp
           a == 2 * v[1] - v[2]
<1>1. /\ S = {i \in 1..m : (v[1] # None => t(i) >= v[1]) /\ (v[2] # None => t(i) <= v[2])}
      /\ B = {i \in 1..n : (w[1] # None => t(i) >= w[1]) /\ (w[2] # None => t(i) <= w[2])}
    BY InWindowIs, Zenon
<1>2. \A i \in 1..n : t(i) \in Nat
    BY MatchingIs, Zenon
<1>3. a \in Int /\ v[1] \in Nat /\ v[1] # None /\ w[2] # None /\ w[1] = a /\ w[2] = v[1]
    BY DEF Previous, None
<1> HIDE DEF S, B, t, a
<1>4. \A i \in B : i \in 1..n /\ t(i) <= v[1] /\ (a # None => t(i) >= a)
    BY <1>1, <1>3
<1>5. ASSUME NEW i \in B PROVE t(i) >= a
  <2>1. i \in 1..n /\ (a # None => t(i) >= a)
      BY <1>4
  <2>2. t(i) \in Nat
      BY <1>2, <2>1
  <2> QED BY <1>3, <2>1, <2>2 DEF None
<1>6. ASSUME NEW i \in 1..n, t(i) \in a..v[1] PROVE i \in B
  <2>1. t(i) >= a /\ t(i) <= v[1]
      BY <1>3, <1>6
  <2> QED BY <1>1, <1>3, <2>1, Zenon
<1>7. ASSUME NEW i \in S \cap B PROVE t(i) = v[1]
  <2>1. t(i) >= v[1]
      BY <1>1, <1>3
  <2>2. i \in 1..n /\ t(i) <= v[1]
      BY <1>4
  <2>3. t(i) \in Nat
      BY <1>2, <2>2
  <2> QED BY <1>3, <2>1, <2>2, <2>3
<1> QED BY <1>5, <1>6, <1>7, Zenon DEF ComparedOf, S, B, t, a

-----------------------------------------------------------------------------
(* The evaluation *)

\* The positions of the thresholds rise and end with the last one.
LEMMA RocIndexIs ==
    ASSUME NEW n \in Nat, n > 1, NEW m \in Nat \ {0}
    PROVE  /\ \A i \in 0..(n - 1) : RocIndex(i, n, m) \in 1..m
           /\ \A i \in 0..(n - 1), j \in 0..(n - 1) : i <= j => RocIndex(i, n, m) <= RocIndex(j, n, m)
           /\ RocIndex(n - 1, n, m) = m
<1> DEFINE k == n - 1
           s == m - 1
           q(i) == (i * s) \div k
<1>0. k \in Nat \ {0} /\ s \in Nat
    OBVIOUS
<1>1. \A i : RocIndex(i, n, m) = q(i) + 1
    BY Zenon DEF RocIndex
<1> HIDE DEF k, s
<1>2. ASSUME NEW i \in 0..k
      PROVE  q(i) \in Int /\ k * q(i) <= i * s /\ i * s < k * (q(i) + 1) /\ i * s \in Nat
  <2>1. i * s \in Nat
      BY <1>0
  <2>2. q(i) \in Int
      BY <1>0, <2>1, DivMod
  <2> QED BY <1>0, <2>1, <2>2, QuotientIs
<1>3. ASSUME NEW a \in Int, NEW b \in Int, NEW x \in Int, NEW y \in Int,
             k * a <= x, x <= y, y < k * (b + 1)
      PROVE  a <= b
  <2> SUFFICES ASSUME b + 1 <= a PROVE FALSE
      OBVIOUS
  <2>1. k * (b + 1) <= k * a
      BY <1>0
  <2>2. k * (b + 1) \in Int /\ k * a \in Int
      BY <1>0
  <2> QED BY <1>3, <2>1, <2>2
<1>4. ASSUME NEW i \in 0..k, NEW j \in 0..k, i <= j PROVE q(i) <= q(j)
  <2>1. i * s <= j * s
      BY <1>0, <1>4, Scaled
  <2>2. /\ q(i) \in Int /\ k * q(i) <= i * s /\ i * s \in Nat
        /\ q(j) \in Int /\ j * s < k * (q(j) + 1) /\ j * s \in Nat
      BY <1>2, Zenon
  <2> HIDE DEF q
  <2> DEFINE x == i * s
             y == j * s
  <2> HIDE DEF x, y
  <2>3. x \in Int /\ y \in Int
      BY <2>2 DEF x, y
  <2> QED BY <1>3, <2>1, <2>2, <2>3, Zenon DEF x, y
<1>5. q(0) = 0 /\ q(k) = s
  <2>1. /\ q(0) = 0 <=> (k * 0 <= 0 * s /\ 0 * s < k * (0 + 1))
        /\ q(k) = s <=> (k * s <= k * s /\ k * s < k * (s + 1))
    <3>1. 0 * s \in Nat /\ k * s \in Nat
        BY <1>0
    <3> QED BY <1>0, <3>1, QuotientIs
  <2> QED BY <1>0, <2>1
<1>6. 0 \in 0..k /\ k \in 0..k
    BY <1>0
<1>7. ASSUME NEW i \in 0..k PROVE q(i) + 1 \in 1..m
  <2>1. 0 <= q(i) /\ q(i) <= s /\ q(i) \in Int
    <3>1. 0 <= i /\ i <= k
        BY <1>0
    <3>2. q(0) <= q(i) /\ q(i) <= q(k) /\ q(i) \in Int
        BY <1>2, <1>4, <1>6, <3>1, Zenon
    <3> HIDE DEF q
    <3> QED BY <1>5, <3>2
  <2> HIDE DEF q
  <2> QED BY <1>0, <2>1 DEF s
<1>8. \A i \in 0..k, j \in 0..k : i <= j => q(i) + 1 <= q(j) + 1
    BY <1>2, <1>4
<1>9. q(k) + 1 = m
  <2> HIDE DEF q
  <2> QED BY <1>5 DEF s
<1> HIDE DEF q
<1> QED BY <1>1, <1>7, <1>8, <1>9, Zenon DEF k

IsSamples(x, m) ==
    /\ m \in Nat \ {0} /\ DOMAIN x = 1..m
    /\ \A i \in 1..m : x[i].err \in Int /\ x[i].pred \in BOOLEAN /\ x[i].label \in BOOLEAN

Descending(x, p, m) == \A i, j \in 1..m : i < j => x[p[i]].err >= x[p[j]].err

\* std::sort by falling error.
LEMMA SortedSamples ==
    ASSUME NEW m, NEW x, IsSamples(x, m)
    PROVE  \E p : /\ Enumerates(p, m, 1..m) /\ Descending(x, p, m)
                  /\ ByError(x) = [i \in 1..m |-> x[p[i]]]
<1> DEFINE O == {s \in Injection(1..Cardinality(DOMAIN x), DOMAIN x) :
                    \A i, j \in DOMAIN s : i < j => ~(x[s[j]].err > x[s[i]].err)}
           p == CHOOSE s \in O : TRUE
           key == [i \in 1..m |-> -x[i].err]
<1>0. m \in Nat /\ DOMAIN x = 1..m /\ \A i \in 1..m : x[i].err \in Int
    BY DEF IsSamples
<1>1. IsFiniteSet(1..m) /\ Cardinality(1..m) = m
    BY <1>0, FS_Interval
<1>2. ByError(x) = [i \in DOMAIN x |-> x[p[i]]]
    BY Zenon DEF ByError, SortBy, Orderings
<1>3. PICK s \in Injection(1..Cardinality(1..m), 1..m) :
          \A i, j \in DOMAIN s : i < j => key[s[i]] <= key[s[j]]
  <2>1. \A y \in 1..m : key[y] \in Int
      BY <1>0
  <2> QED BY <1>1, <2>1, SortedOrder, Zenon
<1>4. s \in O
  <2>1. s \in [1..m -> 1..m] /\ DOMAIN s = 1..m
      BY <1>1 DEF Injection
  <2>2. \A i \in 1..m : s[i] \in 1..m
      BY <2>1
  <2>3. ASSUME NEW i \in 1..m, NEW j \in 1..m, i < j PROVE ~(x[s[j]].err > x[s[i]].err)
    <3>1. key[s[i]] <= key[s[j]]
        BY <1>3, <2>1, <2>3, Zenon
    <3> QED BY <1>0, <2>2, <3>1
  <2> QED BY <1>0, <1>3, <2>1, <2>3, Zenon
<1>5. p \in O
    BY <1>4, Zenon
<1> HIDE DEF p
<1>6. Enumerates(p, m, 1..m)
    BY <1>0, <1>1, <1>5, OrderOnto
<1>7. Descending(x, p, m)
  <2>1. p \in [1..m -> 1..m]
      BY <1>6 DEF Enumerates
  <2> QED BY <1>0, <1>5, <2>1 DEF Descending
<1> QED BY <1>0, <1>2, <1>6, <1>7, Zenon

\* The elements that an order brings into a set are as many as the set has.
LEMMA PermutedCount ==
    ASSUME NEW m, NEW p, Enumerates(p, m, 1..m), NEW A \in SUBSET (1..m)
    PROVE  Cardinality({i \in 1..m : p[i] \in A}) = Cardinality(A)
<1> DEFINE B == {i \in 1..m : p[i] \in A}
           f == [i \in B |-> p[i]]
<1>1. m \in Nat /\ p \in [1..m -> 1..m]
    BY Zenon DEF Enumerates
<1>2. IsFiniteSet(1..m)
    BY <1>1, FS_Interval
<1>3. IsFiniteSet(B)
  <2>1. B \in SUBSET (1..m)
      OBVIOUS
  <2> HIDE DEF B
  <2> QED BY <1>2, <2>1, CountSubset, Zenon
<1>4. f \in Injection(B, A) /\ f \in Surjection(B, A)
    BY DEF Enumerates, Injection, IsInjective, Surjection
<1>5. ExistsBijection(B, A)
    BY <1>4, Zenon DEF ExistsBijection, Bijection
<1> QED BY <1>3, <1>5, FS_Bijection

\* What is reported from the threshold t on: rightly, and wrongly.
Hits(y, m, t) == {i \in 1..m : y[i].err >= t /\ y[i].label}
Alarms(y, m, t) == {i \in 1..m : y[i].err >= t /\ ~y[i].label}
PointAt(y, m, t) == [ttp |-> Cardinality(Hits(y, m, t)), tfp |-> Cardinality(Alarms(y, m, t))]

Labelled(x, m) == {i \in 1..m : x[i].label}
Unlabelled(x, m) == {i \in 1..m : ~x[i].label}

\* A lower threshold reports at least as much.
LEMMA LowerThreshold ==
    ASSUME NEW m \in Nat, NEW y, \A i \in 1..m : y[i].err \in Int,
           NEW t \in Int, NEW u \in Int, u <= t
    PROVE  /\ PointAt(y, m, t).ttp <= PointAt(y, m, u).ttp
           /\ PointAt(y, m, t).tfp <= PointAt(y, m, u).tfp
<1>1. IsFiniteSet(1..m)
    BY FS_Interval
<1>2. /\ Hits(y, m, u) \in SUBSET (1..m) /\ Hits(y, m, t) \in SUBSET Hits(y, m, u)
      /\ Alarms(y, m, u) \in SUBSET (1..m) /\ Alarms(y, m, t) \in SUBSET Alarms(y, m, u)
  <2>1. \A i \in 1..m : y[i].err >= t => y[i].err >= u
      OBVIOUS
  <2> QED BY <2>1, Zenon DEF Hits, Alarms
<1>3. /\ Cardinality(Hits(y, m, t)) <= Cardinality(Hits(y, m, u))
      /\ Cardinality(Alarms(y, m, t)) <= Cardinality(Alarms(y, m, u))
    BY <1>1, <1>2, CountSubset, Zenon
<1> QED BY <1>3 DEF PointAt

\* The lowest error reports everything.
LEMMA LowestThreshold ==
    ASSUME NEW m, NEW x, IsSamples(x, m), NEW p, Enumerates(p, m, 1..m), Descending(x, p, m),
           NEW y, y = [i \in 1..m |-> x[p[i]]]
    PROVE  PointAt(y, m, y[m].err) = [ttp |-> Cardinality(Labelled(x, m)),
                                      tfp |-> Cardinality(Unlabelled(x, m))]
<1>1. m \in 1..m /\ \A i \in 1..m : p[i] \in 1..m /\ y[i] = x[p[i]] /\ x[p[i]].err \in Int
  <2>1. m \in Nat \ {0}
      BY DEF IsSamples
  <2>2. m \in 1..m
      BY <2>1
  <2>3. \A i \in 1..m : p[i] \in 1..m
      BY Zenon DEF Enumerates
  <2>4. \A i \in 1..m : x[i].err \in Int
      BY Zenon DEF IsSamples
  <2> QED BY <2>2, <2>3, <2>4, Zenon
<1>2. \A i \in 1..m : y[i].err >= y[m].err
  <2> TAKE i \in 1..m
  <2>1. CASE i < m
      BY <1>1, <2>1 DEF Descending
  <2>2. CASE i = m
      BY <1>1, <2>2
  <2>3. i < m \/ i = m
      BY DEF IsSamples
  <2> QED BY <2>1, <2>2, <2>3
<1>3. /\ Hits(y, m, y[m].err) = {i \in 1..m : p[i] \in Labelled(x, m)}
      /\ Alarms(y, m, y[m].err) = {i \in 1..m : p[i] \in Unlabelled(x, m)}
  <2>1. /\ \A i \in 1..m : y[i].err >= y[m].err /\ y[i].label <=> p[i] \in Labelled(x, m)
        /\ \A i \in 1..m : y[i].err >= y[m].err /\ ~y[i].label <=> p[i] \in Unlabelled(x, m)
      BY <1>1, <1>2, Zenon DEF Labelled, Unlabelled
  <2> QED BY <2>1, Zenon DEF Hits, Alarms
<1>4. Labelled(x, m) \in SUBSET (1..m) /\ Unlabelled(x, m) \in SUBSET (1..m)
    BY Zenon DEF Labelled, Unlabelled
<1>5. /\ Cardinality(Hits(y, m, y[m].err)) = Cardinality(Labelled(x, m))
      /\ Cardinality(Alarms(y, m, y[m].err)) = Cardinality(Unlabelled(x, m))
  <2>1. \A A \in SUBSET (1..m) : Cardinality({i \in 1..m : p[i] \in A}) = Cardinality(A)
      BY PermutedCount
  <2> QED BY <1>3, <1>4, <2>1, Zenon
<1> QED BY <1>5, Zenon DEF PointAt

\* The confusion matrix has every sample once.
LEMMA ConfusionIs ==
    ASSUME NEW m, NEW x, IsSamples(x, m)
    PROVE  LET c == Confusion(x)
           IN  /\ c.tp + c.fn = Cardinality(Labelled(x, m))
               /\ c.fp + c.tn = Cardinality(Unlabelled(x, m))
<1> DEFINE L == Labelled(x, m)
           U == Unlabelled(x, m)
           P == {i \in 1..m : x[i].pred}
           c == Confusion(x)
<1>1. /\ {i \in DOMAIN x : x[i].pred = TRUE /\ x[i].label = TRUE} = L \cap P
      /\ {i \in DOMAIN x : x[i].pred = FALSE /\ x[i].label = TRUE} = L \ P
      /\ {i \in DOMAIN x : x[i].pred = TRUE /\ x[i].label = FALSE} = U \cap P
      /\ {i \in DOMAIN x : x[i].pred = FALSE /\ x[i].label = FALSE} = U \ P
  <2>1. \A i \in 1..m : x[i].pred \in BOOLEAN /\ x[i].label \in BOOLEAN
      BY Zenon DEF IsSamples
  <2>2. DOMAIN x = 1..m
      BY Zenon DEF IsSamples
  <2> QED BY <2>1, <2>2, Zenon DEF Labelled, Unlabelled
<1>2. /\ c.tp = Cardinality(L \cap P) /\ c.fn = Cardinality(L \ P)
      /\ c.fp = Cardinality(U \cap P) /\ c.tn = Cardinality(U \ P)
  <2>1. c = [tp |-> Cardinality(L \cap P), fp |-> Cardinality(U \cap P),
             tn |-> Cardinality(U \ P), fn |-> Cardinality(L \ P)]
      BY <1>1, Zenon DEF Confusion, CountIn
  <2> HIDE DEF c, L, P, U
  <2> QED BY <2>1
<1>3. IsFiniteSet(L) /\ IsFiniteSet(U)
  <2>1. IsFiniteSet(1..m)
      BY FS_Interval DEF IsSamples
  <2>2. L \in SUBSET (1..m) /\ U \in SUBSET (1..m)
      BY Zenon DEF Labelled, Unlabelled
  <2> QED BY <2>1, <2>2, CountSubset, Zenon
<1> HIDE DEF c, L, U, P
<1>4. /\ Cardinality(L) = Cardinality(L \cap P) + Cardinality(L \ P)
      /\ Cardinality(U) = Cardinality(U \cap P) + Cardinality(U \ P)
  <2>1. ASSUME NEW S, IsFiniteSet(S) PROVE Cardinality(S) = Cardinality(S \cap P) + Cardinality(S \ P)
    <3>1. S \cap P \in SUBSET S /\ S \ (S \cap P) = S \ P
        OBVIOUS
    <3> QED BY <2>1, <3>1, CountSplit, Zenon
  <2> QED BY <1>3, <2>1, Zenon
<1> QED BY <1>2, <1>4, Zenon DEF c, L, U

Rises(roc, n) == \A i \in 1..(n - 1) : roc[i].ttp <= roc[i + 1].ttp /\ roc[i].tfp <= roc[i + 1].tfp
EvalOf(roc, c) ==
    /\ Rises(roc, Len(roc))
    /\ roc[Len(roc)] = [ttp |-> c.tp + c.fn, tfp |-> c.fp + c.tn]

\* Whatever number of points is asked for, there are at least ten.
LEMMA PointsNumber ==
    ASSUME NEW points \in Int
    PROVE  RocPoints(points) \in Nat /\ RocPoints(points) > 1
<1> DEFINE asked == IF points > 0 THEN points ELSE 50
           few == Min({asked, 200})
           n == Max({few, 10})
<1>1. asked \in Int
    OBVIOUS
<1> HIDE DEF asked
<1>2. few \in Int
    BY <1>1, MinOfTwo
<1> HIDE DEF few
<1>3. \E x \in {few, 10} : \A y \in {few, 10} : x >= y
    BY <1>2
<1>4. n \in {few, 10} /\ \A y \in {few, 10} : n >= y
    BY <1>3, Zenon DEF Max
<1> HIDE DEF n
<1>5. n \in Nat /\ n > 1
    BY <1>2, <1>4
<1> QED BY <1>5, Zenon DEF RocPoints, n, few, asked

\* The ROC curve of GetEvalMetrics rises to all samples, which are those that the
\* confusion matrix counts, for every list of scored samples and number of points.
THEOREM RocIs ==
    ASSUME NEW m, NEW x, IsSamples(x, m), x # <<>>, NEW points \in Int
    PROVE  EvalOf(Roc(x, points), Confusion(x))
<1> DEFINE n == RocPoints(points)
           roc == Roc(x, points)
           c == Confusion(x)
<1>1. PICK p : /\ Enumerates(p, m, 1..m) /\ Descending(x, p, m)
               /\ ByError(x) = [i \in 1..m |-> x[p[i]]]
    BY SortedSamples
<1> DEFINE y == ByError(x)
<1>2. /\ DOMAIN y = 1..m /\ Len(y) = m /\ m \in Nat \ {0}
      /\ \A i \in 1..m : y[i] = x[p[i]] /\ p[i] \in 1..m
  <2>1. m \in Nat \ {0}
      BY DEF IsSamples
  <2>2. \A i \in 1..m : p[i] \in 1..m
      BY <1>1 DEF Enumerates
  <2> HIDE DEF y
  <2>3. y = [i \in 1..m |-> x[p[i]]]
      BY <1>1 DEF y
  <2> QED BY <2>1, <2>2, <2>3
<1>3. \A i \in 1..m : y[i].err \in Int
    BY <1>2 DEF IsSamples
<1>4. \A i, j \in 1..m : i <= j => y[j].err <= y[i].err
  <2> SUFFICES ASSUME NEW i \in 1..m, NEW j \in 1..m, i <= j PROVE y[j].err <= y[i].err
      OBVIOUS
  <2> HIDE DEF y
  <2>1. CASE i = j
      BY <1>3, <2>1
  <2>2. CASE i < j
      BY <1>1, <1>2, <1>3, <2>2 DEF Descending
  <2> QED BY <1>2, <2>1, <2>2
<1>5. n \in Nat /\ n > 1
    BY PointsNumber
<1> DEFINE q(i) == RocIndex(i - 1, n, m)
<1>6. roc = [i \in 1..n |-> PointAt(y, m, y[q(i)].err)]
  <2>1. roc = [i \in 1..n |->
                 [ttp |-> Cardinality({k \in DOMAIN y : y[k].err >= y[RocIndex(i - 1, n, Len(y))].err
                                                        /\ y[k].label}),
                  tfp |-> Cardinality({k \in DOMAIN y : y[k].err >= y[RocIndex(i - 1, n, Len(y))].err
                                                        /\ ~y[k].label})]]
      BY Zenon DEF Roc, CountIn
  <2> HIDE DEF y, roc, n
  <2> QED BY <1>2, <2>1, Zenon DEF PointAt, Hits, Alarms
<1> HIDE DEF y, n
<1>7. /\ \A i \in 1..n : q(i) \in 1..m
      /\ \A i \in 1..(n - 1) : q(i) <= q(i + 1)
      /\ q(n) = m
  <2>1. /\ \A i \in 0..(n - 1) : RocIndex(i, n, m) \in 1..m
        /\ \A i \in 0..(n - 1), j \in 0..(n - 1) : i <= j => RocIndex(i, n, m) <= RocIndex(j, n, m)
        /\ RocIndex(n - 1, n, m) = m
      BY <1>2, <1>5, RocIndexIs, Zenon
  <2>2. \A i \in 1..n : i - 1 \in 0..(n - 1)
      BY <1>5
  <2>3. \A i \in 1..(n - 1) : i - 1 \in 0..(n - 1) /\ (i + 1) - 1 \in 0..(n - 1) /\ i - 1 <= (i + 1) - 1
      BY <1>5
  <2> QED BY <2>1, <2>2, <2>3, Zenon
<1> HIDE DEF q, roc
<1>8. DOMAIN roc = 1..n /\ Len(roc) = n /\ \A i \in 1..n : roc[i] = PointAt(y, m, y[q(i)].err)
    BY <1>5, <1>6
<1>9. Rises(roc, n)
  <2> SUFFICES ASSUME NEW i \in 1..(n - 1)
               PROVE  roc[i].ttp <= roc[i + 1].ttp /\ roc[i].tfp <= roc[i + 1].tfp
      BY Zenon DEF Rises
  <2>1. i \in 1..n /\ i + 1 \in 1..n
      BY <1>5
  <2>2. q(i) \in 1..m /\ q(i + 1) \in 1..m /\ q(i) <= q(i + 1)
      BY <1>7, <2>1, Zenon
  <2>3. /\ y[q(i + 1)].err <= y[q(i)].err
        /\ y[q(i)].err \in Int /\ y[q(i + 1)].err \in Int
      BY <1>3, <1>4, <2>2, Zenon
  <2>4. m \in Nat
      BY <1>2
  <2> DEFINE t == y[q(i)].err
             u == y[q(i + 1)].err
  <2> HIDE DEF t, u
  <2>5. /\ PointAt(y, m, t).ttp <= PointAt(y, m, u).ttp
        /\ PointAt(y, m, t).tfp <= PointAt(y, m, u).tfp
    <3>1. t \in Int /\ u \in Int /\ u <= t
        BY <2>3, Zenon DEF t, u
    <3> QED BY <1>3, <2>4, <3>1, LowerThreshold, Zenon
  <2> QED BY <1>8, <2>1, <2>5, Zenon DEF t, u
<1>10. roc[n] = [ttp |-> Cardinality(Labelled(x, m)), tfp |-> Cardinality(Unlabelled(x, m))]
  <2>1. n \in 1..n
      BY <1>5
  <2>2. roc[n] = PointAt(y, m, y[m].err)
      BY <1>7, <1>8, <2>1, Zenon
  <2>3. y = [i \in 1..m |-> x[p[i]]]
      BY <1>1, Zenon DEF y
  <2> QED BY <1>1, <2>2, <2>3, LowestThreshold, Zenon
<1>11. /\ c.tp + c.fn = Cardinality(Labelled(x, m))
       /\ c.fp + c.tn = Cardinality(Unlabelled(x, m))
    BY ConfusionIs, Zenon
<1> HIDE DEF c
<1>12. EvalOf(roc, c)
    BY <1>8, <1>9, <1>10, <1>11, Zenon DEF EvalOf
<1> QED BY <1>12, Zenon DEF roc, c

=============================================================================

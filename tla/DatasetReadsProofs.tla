-------------------------- MODULE DatasetReadsProofs --------------------------
(***************************************************************************)
(* What the reads of a dataset that is still being written answer, for     *)
(* every dataset and every interleaving with its writers.                  *)
(***************************************************************************)
EXTENDS DatasetReads, DatasetQueriesProofs

-----------------------------------------------------------------------------
(* The steps *)

\* The type invariant, and that a request always has a kind and a state.
BaseInv == TypeOK /\ "kind" \in DOMAIN reader /\ "pc" \in DOMAIN reader

\* A writer inserts, or nothing happens.
TablesGrow ==
    /\ inserted' >= inserted /\ scored' >= scored /\ inserted' \in Nat /\ scored' \in Nat
    /\ UNCHANGED <<dataset, reader, faults>>

\* The steps of a request, by its kind.
PagesStep == AskSamples \/ AskScores \/ PageItems \/ PageCount
TopKStep == AskTopK \/ TopKTotal \/ TopKGroups
HistogramStep == AskHistogram \/ HistogramFindRange \/ HistogramCounts
SummaryStep == AskSummary \/ SummaryRows \/ SummaryTypes
SeriesStep == AskTimeSeries \/ SeriesWindow \/ SeriesBaseline
EvalStep == AskEval \/ EvalScores
TrainStep == StartTraining \/ TrainBatch
InferStep == AskInference \/ InferLookup \/ InferCreate \/ InferScore \/ InferUpdate

\* What a step of a request of this kind leaves behind.
LeavesKind(kind) ==
    /\ reader'.kind = kind /\ "kind" \in DOMAIN reader' /\ "pc" \in DOMAIN reader'
    /\ faults' \in 0..MaxFaults /\ faults' >= faults

RequestStep ==
    /\ UNCHANGED <<dataset, inserted, scored>>
    /\ \/ Forget /\ LeavesKind("idle")
       \/ PagesStep /\ LeavesKind("pages")
       \/ TopKStep /\ LeavesKind("topk")
       \/ HistogramStep /\ LeavesKind("histogram")
       \/ SummaryStep /\ LeavesKind("summary")
       \/ SeriesStep /\ LeavesKind("series")
       \/ EvalStep /\ LeavesKind("eval")
       \/ TrainStep /\ LeavesKind("train")
       \/ InferStep /\ LeavesKind("infer")

LEMMA FaultSteps ==
    ASSUME faults \in 0..MaxFaults, Executed \/ Failed
    PROVE  faults' \in 0..MaxFaults /\ faults' >= faults
BY ReadsAssumption DEF Executed, Failed

LEMMA AskKinds ==
    ASSUME BaseInv
    PROVE  /\ AskSamples \/ AskScores => LeavesKind("pages")
           /\ AskTopK => LeavesKind("topk")
           /\ AskHistogram => LeavesKind("histogram")
           /\ AskSummary => LeavesKind("summary")
           /\ AskTimeSeries => LeavesKind("series")
           /\ AskEval => LeavesKind("eval")
           /\ StartTraining => LeavesKind("train")
           /\ AskInference => LeavesKind("infer")
<1>0. faults \in 0..MaxFaults
    BY DEF BaseInv, TypeOK
<1>1. AskSamples => LeavesKind("pages")
  <2>1. AskSamples => \E d, f, l :
            Ask([kind |-> "pages", pc |-> "items", from |-> "telemetry", dir |-> d, filter |-> f,
                 limit |-> l, offset |-> 0, page |-> <<>>, seen |-> <<>>, first |-> 0])
      BY Zenon DEF AskSamples
  <2> QED BY <1>0, <2>1, FaultSteps DEF Ask, LeavesKind
<1>2. AskScores => LeavesKind("pages")
    BY <1>0, FaultSteps DEF AskScores, Ask, LeavesKind
<1>3. AskTopK => LeavesKind("topk")
    BY <1>0, FaultSteps DEF AskTopK, Ask, LeavesKind
<1>4. AskHistogram => LeavesKind("histogram")
  <2>1. AskHistogram => \E b, r, f :
            Ask([kind |-> "histogram", pc |-> "range", requested_bins |-> b, range |-> r,
                 filter |-> f, counts |-> <<>>, at |-> 0])
      BY Zenon DEF AskHistogram
  <2> QED BY <1>0, <2>1, FaultSteps DEF Ask, LeavesKind
<1>5. AskSummary => LeavesKind("summary")
    BY <1>0, FaultSteps DEF AskSummary, Ask, LeavesKind
<1>6. AskTimeSeries => LeavesKind("series")
    BY <1>0, FaultSteps DEF AskTimeSeries, Ask, LeavesKind
<1>7. AskEval => LeavesKind("eval")
    BY <1>0, FaultSteps DEF AskEval, Ask, LeavesKind
<1>8. StartTraining => LeavesKind("train")
    BY <1>0, FaultSteps DEF StartTraining, Ask, LeavesKind
<1>9. AskInference => LeavesKind("infer")
    BY <1>0, FaultSteps DEF AskInference, Ask, LeavesKind
<1> QED BY <1>1, <1>2, <1>3, <1>4, <1>5, <1>6, <1>7, <1>8, <1>9

LEMMA ErrorKind ==
    ASSUME BaseInv, Throws
    PROVE  LeavesKind(reader.kind) /\ reader' = [kind |-> reader.kind, pc |-> "error"]
BY FaultSteps DEF BaseInv, TypeOK, Throws, LeavesKind

LEMMA UpdateKind ==
    ASSUME BaseInv, Executed \/ Failed, NEW code, reader' = [reader EXCEPT !.pc = code]
    PROVE  LeavesKind(reader.kind) /\ reader'.pc = code
BY FaultSteps DEF BaseInv, TypeOK, LeavesKind

LEMMA PageKinds ==
    ASSUME BaseInv, PageItems \/ PageCount
    PROVE  LeavesKind("pages")
<1>1. ASSUME NEW r, Becomes(r), \/ \E p, q, f : r = [reader EXCEPT !.pc = p, !.page = q, !.first = f]
                                \/ \E p, q, s, o : r = [reader EXCEPT !.page = q, !.seen = s,
                                                              !.pc = p, !.offset = o]
      PROVE  LeavesKind(reader.kind)
    BY <1>1, FaultSteps, Zenon DEF BaseInv, TypeOK, Becomes, LeavesKind
<1>2. reader.kind = "pages"
    BY Zenon DEF PageItems, PageCount
<1>3. CASE PageItems
    BY <1>1, <1>2, <1>3, ErrorKind, UpdateKind, Zenon DEF PageItems
<1>4. CASE PageCount
    BY <1>1, <1>2, <1>4, ErrorKind, UpdateKind, Zenon DEF PageCount
<1> QED BY <1>3, <1>4

LEMMA QueryKinds ==
    ASSUME BaseInv
    PROVE  /\ TopKTotal \/ TopKGroups => LeavesKind("topk")
           /\ HistogramFindRange \/ HistogramCounts => LeavesKind("histogram")
           /\ SummaryRows \/ SummaryTypes => LeavesKind("summary")
           /\ SeriesWindow \/ SeriesBaseline => LeavesKind("series")
           /\ EvalScores => LeavesKind("eval")
<1>1. ASSUME NEW p, NEW t, Becomes([reader EXCEPT !.pc = p, !.total_distinct = t])
      PROVE  LeavesKind(reader.kind)
    BY <1>1, FaultSteps DEF BaseInv, TypeOK, Becomes, LeavesKind
<1>2. ASSUME NEW p, NEW r, NEW a, Becomes([reader EXCEPT !.range = r, !.at = a, !.pc = p])
      PROVE  LeavesKind(reader.kind)
    BY <1>2, FaultSteps DEF BaseInv, TypeOK, Becomes, LeavesKind
<1>3. ASSUME NEW p, NEW a, NEW c, Becomes([reader EXCEPT !.pc = p, !.at = a, !.counts = c])
      PROVE  LeavesKind(reader.kind)
    BY <1>3, FaultSteps DEF BaseInv, TypeOK, Becomes, LeavesKind
<1>4. ASSUME NEW p, NEW a, NEW c, Becomes([reader EXCEPT !.pc = p, !.row_count = a, !.anomalies = c])
      PROVE  LeavesKind(reader.kind)
    BY <1>4, FaultSteps DEF BaseInv, TypeOK, Becomes, LeavesKind
<1>5. ASSUME NEW r, "kind" \in DOMAIN r, "pc" \in DOMAIN r, r.kind = reader.kind, Becomes(r)
      PROVE  LeavesKind(reader.kind)
    BY <1>5, FaultSteps DEF BaseInv, TypeOK, Becomes, LeavesKind
<1>6. TopKTotal => LeavesKind("topk")
    BY <1>1, ErrorKind, Zenon DEF TopKTotal
<1>7. TopKGroups => LeavesKind("topk")
  <2>1. TopKGroups => \/ Throws
                      \/ Becomes([kind |-> "topk", pc |-> "error"])
                      \/ \E c, k, t, a : Becomes([kind |-> "topk", pc |-> "done", column |-> c, k |-> k,
                                               total_distinct |-> t, answer |-> a, at |-> inserted])
      BY Zenon DEF TopKGroups
  <2>2. TopKGroups => reader.kind = "topk"
      BY Zenon DEF TopKGroups
  <2>3. Becomes([kind |-> "topk", pc |-> "error"]) /\ reader.kind = "topk" => LeavesKind("topk")
      BY <1>5
  <2> QED BY <1>5, <2>1, <2>2, <2>3, ErrorKind, Zenon
<1>8. HistogramFindRange => LeavesKind("histogram")
    BY <1>2, ErrorKind, Zenon DEF HistogramFindRange
<1>9. HistogramCounts => LeavesKind("histogram")
  <2>1. HistogramCounts => \/ \E a, c : Becomes([reader EXCEPT !.pc = "done", !.at = a, !.counts = c])
                           \/ Becomes([kind |-> "histogram", pc |-> "error"]) \/ Throws
      BY Zenon DEF HistogramCounts
  <2>2. HistogramCounts => reader.kind = "histogram"
      BY Zenon DEF HistogramCounts
  <2>3. Becomes([kind |-> "histogram", pc |-> "error"]) /\ reader.kind = "histogram" => LeavesKind("histogram")
      BY <1>5
  <2> QED BY <1>3, <2>1, <2>2, <2>3, ErrorKind, Zenon
<1>10. SummaryRows => LeavesKind("summary")
    BY <1>4, ErrorKind, Zenon DEF SummaryRows
<1>11. SummaryTypes => LeavesKind("summary")
  <2>1. SummaryTypes => \/ Throws
                        \/ \E c, n, t : Becomes([kind |-> "summary", pc |-> "done", row_count |-> c,
                                            anomalies |-> n, types |-> t, at |-> inserted])
      BY Zenon DEF SummaryTypes
  <2>2. SummaryTypes => reader.kind = "summary"
      BY Zenon DEF SummaryTypes
  <2> QED BY <1>5, <2>1, <2>2, ErrorKind, Zenon
<1>12. SeriesWindow => LeavesKind("series")
  <2>1. SeriesWindow => \/ Throws
                        \/ \E p, w, b, s, i : Becomes([kind |-> "series", pc |-> p, window |-> w,
                                baseline |-> b, size |-> s, items |-> i, at |-> inserted])
      BY Zenon DEF SeriesWindow
  <2>2. SeriesWindow => reader.kind = "series"
      BY Zenon DEF SeriesWindow
  <2> QED BY <1>5, <2>1, <2>2, ErrorKind, Zenon
<1>13. SeriesBaseline => LeavesKind("series")
  <2>1. SeriesBaseline => \/ Throws
                          \/ \E w, b, i, a, e, s : Becomes([kind |-> "series", pc |-> "compared",
                                window |-> w, baseline |-> b, items |-> i, at |-> a,
                                before |-> e, size |-> s, then |-> inserted])
      BY Zenon DEF SeriesBaseline
  <2>2. SeriesBaseline => reader.kind = "series"
      BY Zenon DEF SeriesBaseline
  <2> QED BY <1>5, <2>1, <2>2, ErrorKind, Zenon
<1>14. EvalScores => LeavesKind("eval")
  <2>1. EvalScores => \/ Failed /\ reader' = [kind |-> "eval", pc |-> "partial"]
                      \/ \E s, c, r : Becomes([kind |-> "eval", pc |-> "done", samples |-> s,
                                            confusion |-> c, roc |-> r])
      BY Zenon DEF EvalScores
  <2>2. EvalScores => reader.kind = "eval"
      BY Zenon DEF EvalScores
  <2>3. Failed /\ reader' = [kind |-> "eval", pc |-> "partial"] => LeavesKind("eval")
      BY FaultSteps DEF BaseInv, TypeOK, LeavesKind
  <2>4. ASSUME NEW s, NEW c, NEW r, reader.kind = "eval",
               Becomes([kind |-> "eval", pc |-> "done", samples |-> s, confusion |-> c, roc |-> r])
        PROVE  LeavesKind("eval")
      BY <1>5, <2>4
  <2> QED BY <2>1, <2>2, <2>3, <2>4, Zenon
<1> QED BY <1>6, <1>7, <1>8, <1>9, <1>10, <1>11, <1>12, <1>13, <1>14

LEMMA TrainKinds ==
    ASSUME BaseInv, TrainBatch
    PROVE  LeavesKind("train")
<1>1. reader.kind = "train" /\ faults' \in 0..MaxFaults /\ faults' >= faults
    BY FaultSteps, Zenon DEF TrainBatch, Becomes, BaseInv, TypeOK
<1>2. CASE EndPass
  <2>1. \/ reader' = [kind |-> "train", pc |-> "error"]
        \/ \E p : reader' = [reader EXCEPT !.pass = p, !.last = 0]
        \/ \E a, b, c, d : reader' = [kind |-> "train", pc |-> "done", read |-> a, start |-> b,
                                      percentile |-> c, threshold |-> d]
      BY <1>2, Zenon DEF EndPass
  <2>2. CASE reader' = [kind |-> "train", pc |-> "error"]
      BY <1>1, <2>2 DEF LeavesKind
  <2>3. CASE \E p : reader' = [reader EXCEPT !.pass = p, !.last = 0]
      BY <1>1, <2>3 DEF LeavesKind, BaseInv
  <2>4. CASE \E a, b, c, d : reader' = [kind |-> "train", pc |-> "done", read |-> a, start |-> b,
                                      percentile |-> c, threshold |-> d]
      BY <1>1, <2>4 DEF LeavesKind
  <2> QED BY <2>1, <2>2, <2>3, <2>4, Zenon
<1>3. CASE \E b, l : reader' = [reader EXCEPT !.read[reader.pass] = b, !.last = l]
    BY <1>1, <1>3 DEF LeavesKind, BaseInv
<1> QED BY <1>2, <1>3, Zenon DEF TrainBatch, Becomes

LEMMA InferKinds ==
    ASSUME BaseInv, InferLookup \/ InferCreate \/ InferScore \/ InferUpdate
    PROVE  LeavesKind("infer")
<1>1. reader.kind = "infer" /\ faults' \in 0..MaxFaults /\ faults' >= faults
    BY FaultSteps, Zenon DEF InferLookup, InferCreate, InferScore, InferUpdate, Becomes, BaseInv, TypeOK
<1>2. CASE \E code : reader' = Reply(code)
    BY <1>1, <1>2 DEF LeavesKind, BaseInv, Reply
<1>3. CASE InferLookup
    BY <1>2, <1>3 DEF InferLookup, Becomes
<1>4. CASE InferCreate
    BY <1>1, <1>2, <1>4, Zenon DEF InferCreate, Becomes, LeavesKind, BaseInv
<1>5. CASE InferScore
    BY <1>1, <1>2, <1>5 DEF InferScore, Becomes, LeavesKind, BaseInv
<1>6. CASE InferUpdate
    BY <1>1, <1>2, <1>6, Zenon DEF InferUpdate, Becomes, LeavesKind, BaseInv, Reply
<1> QED BY <1>3, <1>4, <1>5, <1>6

LEMMA RequestKeepsBase ==
    ASSUME BaseInv, RequestStep
    PROVE  BaseInv'
BY Zenon DEF RequestStep, LeavesKind, BaseInv, TypeOK

\* Every step is an insertion or a step of the request, and keeps the base invariant.
LEMMA Steps ==
    ASSUME BaseInv, [Next]_vars
    PROVE  BaseInv' /\ (TablesGrow \/ RequestStep)
<1>0. dataset \in Datasets /\ inserted \in 0..Len(dataset) /\ scored \in 0..inserted /\ inserted \in Nat
      /\ scored \in Nat
    BY ReadsAssumption DEF BaseInv, TypeOK
<1>1. CASE UNCHANGED vars
  <2>1. TablesGrow
      BY <1>0, <1>1 DEF vars, TablesGrow
  <2>2. BaseInv'
      BY <1>1, Zenon DEF vars, BaseInv, TypeOK
  <2> QED BY <2>1, <2>2
<1>2. CASE InsertRecord
  <2>1. inserted' = inserted + 1 /\ inserted < Len(dataset) /\ UNCHANGED <<dataset, scored, reader, faults>>
      BY <1>2, Zenon DEF InsertRecord
  <2>2. TablesGrow
      BY <1>0, <2>1 DEF TablesGrow
  <2>3. inserted' \in 0..Len(dataset) /\ scored \in 0..inserted'
    <3>1. Len(dataset) \in Nat
        BY <1>0, ReadsAssumption
    <3> QED BY <1>0, <2>1, <3>1
  <2>4. BaseInv'
      BY <2>1, <2>3, Zenon DEF BaseInv, TypeOK
  <2> QED BY <2>2, <2>4
<1>3. CASE InsertScore
  <2>1. scored' = scored + 1 /\ scored < inserted /\ UNCHANGED <<dataset, inserted, reader, faults>>
      BY <1>3, Zenon DEF InsertScore
  <2>2. TablesGrow
      BY <1>0, <2>1 DEF TablesGrow
  <2>3. scored' \in 0..inserted
      BY <1>0, <2>1
  <2>4. BaseInv'
      BY <2>1, <2>3, Zenon DEF BaseInv, TypeOK
  <2> QED BY <2>2, <2>4
<1>4. CASE Forget
  <2>1. LeavesKind("idle") /\ UNCHANGED <<dataset, inserted, scored>>
      BY <1>4, FaultSteps DEF Forget, Becomes, Idle, LeavesKind, BaseInv, TypeOK
  <2>2. RequestStep
      BY <1>4, <2>1, Zenon DEF RequestStep
  <2> QED BY <2>2, RequestKeepsBase
<1>5. CASE Asks
  <2>1. RequestStep
      BY <1>5, AskKinds, Zenon DEF Asks, RequestStep, PagesStep, TopKStep, HistogramStep, SummaryStep,
            SeriesStep, EvalStep, TrainStep, InferStep
  <2> QED BY <2>1, RequestKeepsBase
<1>6. CASE PageItems \/ PageCount
  <2>1. RequestStep
      BY <1>6, PageKinds, Zenon DEF RequestStep, PagesStep, PageItems, PageCount
  <2> QED BY <2>1, RequestKeepsBase
<1>7. CASE \/ TopKTotal \/ TopKGroups \/ HistogramFindRange \/ HistogramCounts
           \/ SummaryRows \/ SummaryTypes \/ SeriesWindow \/ SeriesBaseline \/ EvalScores
  <2>1. UNCHANGED <<dataset, inserted, scored>>
      BY <1>7, Zenon DEF TopKTotal, TopKGroups, HistogramFindRange, HistogramCounts, SummaryRows,
            SummaryTypes, SeriesWindow, SeriesBaseline, EvalScores
  <2>2. RequestStep
      BY <1>7, <2>1, QueryKinds, Zenon DEF RequestStep, TopKStep, HistogramStep, SummaryStep,
            SeriesStep, EvalStep
  <2> QED BY <2>2, RequestKeepsBase
<1>8. CASE TrainBatch
  <2>1. RequestStep
      BY <1>8, TrainKinds, Zenon DEF RequestStep, TrainStep, TrainBatch
  <2> QED BY <2>1, RequestKeepsBase
<1>9. CASE InferLookup \/ InferCreate \/ InferScore \/ InferUpdate
  <2>1. UNCHANGED <<dataset, inserted, scored>>
      BY <1>9, Zenon DEF InferLookup, InferCreate, InferScore, InferUpdate
  <2>2. RequestStep
      BY <1>9, <2>1, InferKinds, Zenon DEF RequestStep, InferStep
  <2> QED BY <2>2, RequestKeepsBase
<1> QED BY <1>1, <1>2, <1>3, <1>4, <1>5, <1>6, <1>7, <1>8, <1>9, Zenon DEF Next

LEMMA InitBase == Init => BaseInv
BY ReadsAssumption DEF Init, BaseInv, TypeOK, Idle

-----------------------------------------------------------------------------
(* POST /inference *)

InferRequest ==
    [kind : {"infer"}, pc : {"lookup", "create", "score", "update", "200", "400", "404", "500"},
     model : {"missing", "no_artifact", "unreadable", "usable"},
     samples : {"valid", "malformed", "too_many"},
     row : {"none", "RUNNING", "COMPLETED"}, scored : BOOLEAN]

\* What the row of the run says in each state of the request.
InferInv ==
    reader.kind = "infer" =>
        /\ reader \in InferRequest
        /\ reader.pc \in {"lookup", "create", "400", "404"} => reader.row = "none"
        /\ reader.pc \in {"score", "update"} => reader.row = "RUNNING"
        /\ reader.pc = "update" => reader.scored
        /\ reader.pc = "200" => reader.scored /\ reader.row \in {"RUNNING", "COMPLETED"}
                                /\ (reader.row = "RUNNING" => faults > 0)
        /\ reader.pc = "500" => reader.row \in {"none", "RUNNING"}
                                /\ (reader.row = "RUNNING" => reader.samples = "malformed")

LEMMA InferNext ==
    ASSUME BaseInv, InferInv, [Next]_vars
    PROVE  InferInv'
<1>1. CASE TablesGrow
    BY <1>1, Zenon DEF TablesGrow, InferInv
<1>2. CASE RequestStep /\ reader'.kind # "infer"
    BY <1>2, Zenon DEF InferInv
<1>3. CASE RequestStep /\ reader'.kind = "infer"
  <2>0. faults \in Nat /\ faults' >= faults
      BY <1>3, ReadsAssumption DEF RequestStep, LeavesKind, BaseInv, TypeOK
  <2>1. InferStep
      BY <1>3 DEF RequestStep, LeavesKind
  <2>2. CASE AskInference
      BY <2>2 DEF AskInference, Ask, InferInv, InferRequest
  <2>3. CASE InferLookup
    <3>1. reader \in InferRequest /\ reader.row = "none"
        BY <2>3 DEF InferLookup, InferInv
    <3>2. \E code \in {"create", "400", "404", "500"} : reader' = [reader EXCEPT !.pc = code]
        BY <2>3 DEF InferLookup, Becomes, Reply
    <3> QED BY <3>1, <3>2 DEF InferInv, InferRequest
  <2>4. CASE InferCreate
    <3>1. reader \in InferRequest /\ reader.row = "none"
        BY <2>4 DEF InferCreate, InferInv
    <3>2. \/ reader' = [reader EXCEPT !.pc = "score", !.row = "RUNNING"]
          \/ reader' = [reader EXCEPT !.pc = "500"]
        BY <2>4, Zenon DEF InferCreate, Becomes, Reply
    <3>3. /\ reader' \in InferRequest
          /\ \/ reader'.pc = "score" /\ reader'.row = "RUNNING"
             \/ reader'.pc = "500" /\ reader'.row = "none"
        BY <3>1, <3>2 DEF InferRequest
    <3> QED BY <3>3, Zenon DEF InferInv
  <2>5. CASE InferScore
    <3>1. reader \in InferRequest /\ reader.row = "RUNNING"
        BY <2>5 DEF InferScore, InferInv
    <3>2. \/ reader.samples = "malformed" /\ reader' = [reader EXCEPT !.pc = "500"]
          \/ reader' = [reader EXCEPT !.pc = "update", !.scored = TRUE]
        BY <2>5, Zenon DEF InferScore, Becomes, Reply
    <3>3. /\ reader' \in InferRequest /\ reader'.row = "RUNNING"
          /\ \/ reader'.pc = "500" /\ reader'.samples = "malformed"
             \/ reader'.pc = "update" /\ reader'.scored
        BY <3>1, <3>2 DEF InferRequest
    <3> QED BY <3>3, Zenon DEF InferInv
  <2>6. CASE InferUpdate
    <3>1. reader \in InferRequest /\ reader.row = "RUNNING" /\ reader.scored
        BY <2>6 DEF InferUpdate, InferInv
    <3>2. \/ reader' = [[reader EXCEPT !.pc = "200"] EXCEPT !.row = "COMPLETED"]
          \/ faults' = faults + 1 /\ reader' = [reader EXCEPT !.pc = "200"]
        BY <2>6, Zenon DEF InferUpdate, Becomes, Reply, Failed
    <3>3. /\ reader' \in InferRequest /\ reader'.pc = "200" /\ reader'.scored
          /\ reader'.row = "COMPLETED" \/ (reader'.row = "RUNNING" /\ faults' = faults + 1)
        BY <3>1, <3>2 DEF InferRequest
    <3> QED BY <2>0, <3>3 DEF InferInv
  <2> QED BY <2>1, <2>2, <2>3, <2>4, <2>5, <2>6, Zenon DEF InferStep
<1> QED BY <1>1, <1>2, <1>3, Steps, Zenon

\* The row of an inference run tells how its request ended, whatever fails.
THEOREM InferenceRows == Spec => []ReadsInv
<1>1. Init => BaseInv /\ InferInv
  <2>1. Init => InferInv
      BY DEF Init, InferInv, Idle
  <2> QED BY <2>1, InitBase
<1>2. BaseInv /\ InferInv /\ [Next]_vars => (BaseInv /\ InferInv)'
    BY InferNext, Steps
<1>3. BaseInv /\ InferInv => ReadsInv
  <2>1. ASSUME BaseInv, InferInv PROVE InferenceRowTruth
    <3>1. faults \in Nat
        BY <2>1, ReadsAssumption DEF BaseInv, TypeOK
    <3> QED BY <2>1, <3>1 DEF InferInv, InferenceRowTruth, Answered, InferRequest
  <2> QED BY <2>1 DEF BaseInv, ReadsInv
<1> QED BY <1>1, <1>2, <1>3, PTL DEF Spec

-----------------------------------------------------------------------------
(* The three passes of a training *)

TrainRequest ==
    [kind : {"train"}, pc : {"scan"}, percentile : Percentiles, pass : 1..3, last : Nat,
     read : [1..3 -> Seq(Nat)], start : Nat]

\* A pass has read the records up to last, the passes before it at least what they
\* need and, if nothing failed, all that was there at the start and in the pass
\* before; those after it nothing.
TrainScans ==
    LET m == [p \in 1..3 |-> Len(reader.read[p])]
    IN  /\ reader \in TrainRequest
        /\ \A p \in 1..3 : m[p] \in 0..inserted /\ reader.read[p] = Upto(m[p])
        /\ reader.last = m[reader.pass]
        /\ reader.pass < 3 => m[3] = 0
        /\ reader.pass = 1 => m[2] = 0
        /\ reader.pass > 1 => m[1] >= 2
        /\ reader.start <= inserted
        /\ faults = 0 => /\ reader.pass > 1 => reader.start <= m[1]
                         /\ reader.pass > 2 => m[1] <= m[2]

TrainInv ==
    /\ reader.kind = "train" => \/ reader.pc = "scan" /\ TrainScans
                                \/ reader.pc \in {"done", "error"}
    /\ TrainingSound

\* The next batch continues where the last one ended.
LEMMA BatchIs ==
    ASSUME NEW last \in Nat, inserted \in Nat, last <= inserted
    PROVE  \/ NextBatch(last) = <<>> /\ last = inserted
           \/ \E k \in Nat \ {0} : /\ last + k <= inserted
                                   /\ NextBatch(last) = [i \in 1..k |-> last + i]
                                   /\ NextBatch(last) # <<>>
                                   /\ NextBatch(last)[Len(NextBatch(last))] = last + k
<1> DEFINE k == IF Batch <= inserted - last THEN Batch ELSE inserted - last
<1>1. Min({Batch, inserted - last}) = k /\ k \in Nat /\ last + k <= inserted /\ (k = 0 => last = inserted)
    BY MinOfTwo, ReadsAssumption
<1> HIDE DEF k
<1>2. NextBatch(last) = [i \in 1..k |-> last + i]
    BY <1>1, Zenon DEF NextBatch
<1>3. CASE k = 0
    BY <1>1, <1>2, <1>3
<1>4. CASE k # 0
  <2>1. Len(NextBatch(last)) = k /\ NextBatch(last)[k] = last + k /\ NextBatch(last) # <<>>
      BY <1>1, <1>2, <1>4
  <2> QED BY <1>1, <1>2, <1>4, <2>1
<1> QED BY <1>3, <1>4

LEMMA NotTraining ==
    ASSUME reader'.kind # "train" \/ reader'.pc # "done"
    PROVE  TrainingSound'
BY Zenon DEF TrainingSound, TrainingReadsPrefix, ThresholdIsPercentile

\* The fields of a training that goes on.
LEMMA ScanFields ==
    ASSUME TrainScans
    PROVE  /\ reader.percentile \in Percentiles /\ reader.pass \in 1..3 /\ reader.last \in Nat
           /\ reader.read \in [1..3 -> Seq(Nat)] /\ reader.start \in Nat
           /\ reader.kind = "train" /\ reader.pc = "scan"
           /\ reader.last = Len(reader.read[reader.pass])
           /\ \A p \in 1..3 : /\ Len(reader.read[p]) \in 0..inserted
                              /\ reader.read[p] = Upto(Len(reader.read[p]))
BY DEF TrainScans, TrainRequest

TakesBatch(batch) ==
    reader' = [reader EXCEPT !.read[reader.pass] = @ \o batch, !.last = batch[Len(batch)]]

\* A batch extends what the pass has read.
LEMMA BatchRead ==
    ASSUME BaseInv, TrainScans, UNCHANGED <<dataset, inserted, scored, faults>>,
           NextBatch(reader.last) # <<>>, TakesBatch(NextBatch(reader.last))
    PROVE  TrainScans'
<1> DEFINE pass == reader.pass
           last == reader.last
           old == reader.read[pass]
<1>1. /\ reader \in TrainRequest /\ pass \in 1..3 /\ reader.read \in [1..3 -> Seq(Nat)]
      /\ last = Len(old) /\ old = Upto(last) /\ last \in Nat /\ inserted \in Nat /\ last <= inserted
  <2>1. inserted \in Nat
      BY ReadsAssumption DEF BaseInv, TypeOK
  <2>2. reader \in TrainRequest
      BY Zenon DEF TrainScans
  <2> QED BY <2>1, <2>2, ScanFields
<1>2. PICK k \in Nat \ {0} :
          /\ last + k <= inserted
          /\ NextBatch(last) = [i \in 1..k |-> last + i]
          /\ NextBatch(last)[Len(NextBatch(last))] = last + k
    BY <1>1, BatchIs, Zenon
<1>3. old \o NextBatch(last) = Upto(last + k)
    BY <1>1, <1>2, UptoExtended, Zenon
<1> DEFINE read == [reader.read EXCEPT ![pass] = Upto(last + k)]
<1>4. reader' = [[reader EXCEPT !.read = read] EXCEPT !.last = last + k]
  <2>1. reader' = [reader EXCEPT !.read[pass] = Upto(last + k), !.last = last + k]
      BY <1>2, <1>3, Zenon DEF TakesBatch
  <2> QED BY <2>1, <1>1 DEF TrainRequest
<1>5. last + k \in Nat /\ Upto(last + k) \in Seq(Nat) /\ Len(Upto(last + k)) = last + k
  <2>1. last + k \in Nat
      BY <1>1
  <2> QED BY <2>1, UptoIs, Zenon
<1>6. read \in [1..3 -> Seq(Nat)] /\ read[pass] = Upto(last + k)
      /\ \A p \in 1..3 : p # pass => read[p] = reader.read[p]
    BY <1>1, <1>5
<1> HIDE DEF read
<1>7. /\ reader' \in TrainRequest /\ reader'.read = read /\ reader'.last = last + k
      /\ reader'.pass = pass /\ reader'.start = reader.start
    BY <1>1, <1>4, <1>5, <1>6, Zenon DEF TrainRequest
<1> DEFINE m == [p \in 1..3 |-> Len(reader.read[p])]
           n == [p \in 1..3 |-> Len(read[p])]
<1>8. n[pass] = last + k /\ \A p \in 1..3 : p # pass => n[p] = m[p]
    BY <1>1, <1>5, <1>6, Zenon
<1>9. /\ \A p \in 1..3 : m[p] \in 0..inserted /\ reader.read[p] = Upto(m[p])
      /\ last = m[pass] /\ (pass < 3 => m[3] = 0) /\ (pass = 1 => m[2] = 0) /\ (pass > 1 => m[1] >= 2)
      /\ reader.start <= inserted
      /\ faults = 0 => (pass > 1 => reader.start <= m[1]) /\ (pass > 2 => m[1] <= m[2])
    BY DEF TrainScans
<1>10. \A p \in 1..3 : n[p] \in 0..inserted /\ read[p] = Upto(n[p])
  <2> SUFFICES ASSUME NEW p \in 1..3 PROVE n[p] \in 0..inserted /\ read[p] = Upto(n[p])
      OBVIOUS
  <2>1. CASE p = pass
      BY <1>1, <1>2, <1>6, <1>8, <2>1
  <2>2. CASE p # pass
      BY <1>6, <1>8, <1>9, <2>2, Zenon
  <2> QED BY <2>1, <2>2
<1> HIDE DEF m
<1>11. /\ (pass < 3 => n[3] = 0) /\ (pass = 1 => n[2] = 0) /\ (pass > 1 => n[1] >= 2)
       /\ faults = 0 => (pass > 1 => reader.start <= n[1]) /\ (pass > 2 => n[1] <= n[2])
  <2> HIDE DEF n
  <2>1. n[1] \in Nat /\ n[2] \in Nat /\ m[1] \in Nat /\ m[2] \in Nat
      BY <1>1, <1>9, <1>10
  <2> QED BY <1>1, <1>8, <1>9, <2>1
<1> QED BY <1>7, <1>8, <1>9, <1>10, <1>11, Zenon DEF TrainScans

\* A pass that ends, without a failure only after all records that are there.
LEMMA PassEnds ==
    ASSUME BaseInv, TrainScans, UNCHANGED <<dataset, inserted, scored>>, EndPass,
           faults' \in Nat, faults' >= faults, faults' = 0 => reader.last = inserted
    PROVE  TrainInv'
<1> DEFINE pass == reader.pass
           m == [p \in 1..3 |-> Len(reader.read[p])]
           errors == [i \in 1..Len(reader.read[3]) |-> dataset[reader.read[3][i]].value]
<1>1. /\ pass \in 1..3 /\ reader.read \in [1..3 -> Seq(Nat)] /\ reader.last = m[pass]
      /\ reader.percentile \in Percentiles /\ reader.kind = "train"
      /\ \A p \in 1..3 : m[p] \in 0..inserted /\ reader.read[p] = Upto(m[p])
    BY ScanFields
<1>2. /\ inserted \in Nat /\ inserted <= Len(dataset) /\ dataset \in Seq(Record) /\ faults \in Nat
      /\ inserted' = inserted /\ dataset' = dataset
    BY ReadsAssumption DEF BaseInv, TypeOK
<1>3. /\ (pass < 3 => m[3] = 0) /\ (pass = 1 => m[2] = 0) /\ (pass > 1 => m[1] >= 2)
      /\ reader.start <= inserted
      /\ faults = 0 => (pass > 1 => reader.start <= m[1]) /\ (pass > 2 => m[1] <= m[2])
    BY Zenon DEF TrainScans
<1>4. CASE reader' = [kind |-> "train", pc |-> "error"]
  <2>1. reader'.kind = "train" /\ reader'.pc = "error"
      BY <1>4
  <2> QED BY <2>1, NotTraining DEF TrainInv
<1>5. CASE pass < 3 /\ Enough(pass, m[pass]) /\ reader' = [reader EXCEPT !.pass = @ + 1, !.last = 0]
  <2> HIDE DEF m
  <2>1. /\ reader \in TrainRequest /\ pass + 1 \in 1..3
        /\ reader' = [[reader EXCEPT !.pass = pass + 1] EXCEPT !.last = 0]
    <3>1. reader \in TrainRequest
        BY Zenon DEF TrainScans
    <3>2. pass + 1 \in 1..3
        BY <1>1, <1>5
    <3> QED BY <1>5, <3>1, <3>2, Zenon
  <2>2. /\ reader' \in TrainRequest /\ reader'.pass = pass + 1 /\ reader'.last = 0
        /\ reader'.read = reader.read /\ reader'.start = reader.start
        /\ reader'.kind = "train" /\ reader'.pc = "scan"
      BY <2>1, Zenon DEF TrainRequest
  <2>3. m[1] \in Nat /\ m[2] \in Nat /\ m[pass] \in Nat /\ m[pass + 1] = 0
    <3>1. \A p \in 1..3 : m[p] \in Nat
        BY <1>1, <1>2
    <3>2. (pass = 1 /\ pass + 1 = 2) \/ (pass = 2 /\ pass + 1 = 3)
        BY <1>1, <1>5
    <3> QED BY <1>3, <3>1, <3>2
  <2>4. pass = 1 => m[1] >= 2
      BY <1>5 DEF Enough
  <2>5. faults' = 0 => faults = 0 /\ m[pass] = inserted
      BY <1>1, <1>2
  <2>6. /\ (pass + 1 < 3 => m[3] = 0) /\ (pass + 1 = 1 => m[2] = 0) /\ (pass + 1 > 1 => m[1] >= 2)
        /\ faults' = 0 => (pass + 1 > 1 => reader.start <= m[1]) /\ (pass + 1 > 2 => m[1] <= m[2])
      BY <1>1, <1>2, <1>3, <1>5, <2>3, <2>4, <2>5
  <2>7. TrainScans'
      BY <1>1, <1>2, <1>3, <2>2, <2>3, <2>6, Zenon DEF TrainScans, m
  <2> QED BY <2>2, <2>7, NotTraining DEF TrainInv
<1>6. ASSUME NEW t \in percentile_value(errors, reader.percentile), pass = 3, Enough(pass, m[pass]),
             reader' = [kind |-> "train", pc |-> "done", read |-> reader.read, start |-> reader.start,
                        percentile |-> reader.percentile, threshold |-> t]
      PROVE  TrainInv'
  <2> DEFINE n == m[3]
  <2>1. /\ reader'.kind = "train" /\ reader'.pc = "done" /\ reader'.read = reader.read
        /\ reader'.start = reader.start /\ reader'.percentile = reader.percentile
        /\ reader'.threshold = t
      BY <1>6
  <2>2. n \in Nat \ {0} /\ n <= inserted /\ reader.read[3] = Upto(n)
      BY <1>1, <1>2, <1>6 DEF Enough
  <2>3. TrainingReadsPrefix'
    <3>1. \A p \in 1..3 : /\ Len(reader.read[p]) <= inserted /\ Len(reader.read[p]) \in Nat
                          /\ \A i \in DOMAIN reader.read[p] : reader.read[p][i] = i
      <4> SUFFICES ASSUME NEW p \in 1..3
                   PROVE  /\ Len(reader.read[p]) <= inserted /\ Len(reader.read[p]) \in Nat
                          /\ \A i \in DOMAIN reader.read[p] : reader.read[p][i] = i
          OBVIOUS
      <4>1. m[p] \in Nat /\ m[p] <= inserted /\ reader.read[p] = Upto(m[p]) /\ m[p] = Len(reader.read[p])
          BY <1>1, <1>2
      <4> QED BY <4>1 DEF Upto
    <3>2. Len(reader.read[1]) >= 2
        BY <1>3, <1>6
    <3>3. faults' = 0 => /\ reader.start <= Len(reader.read[1])
                         /\ Len(reader.read[1]) <= Len(reader.read[2])
                         /\ Len(reader.read[2]) <= Len(reader.read[3])
        BY <1>1, <1>2, <1>3, <1>6
    <3> QED BY <1>2, <2>1, <3>1, <3>2, <3>3, Zenon DEF TrainingReadsPrefix
  <2>4. ThresholdIsPercentile'
    <3> DEFINE E == {reader.read[3][i] : i \in DOMAIN reader.read[3]}
    <3>1. E = 1..n
        BY <2>2 DEF Upto
    <3>2. errors \in [1..n -> Int] /\ \A i \in 1..n : errors[i] = dataset[i].value
      <4>1. \A i \in 1..n : reader.read[3][i] = i /\ dataset[i] \in Record
          BY <1>2, <2>2 DEF Upto
      <4>2. Len(reader.read[3]) = n
          OBVIOUS
      <4> QED BY <4>1, <4>2 DEF Record
    <3>3. reader.percentile \in 1..Whole
        BY <1>1, ReadsAssumption, Zenon
    <3> HIDE DEF errors, n
    <3>4. /\ \E i \in 1..n : errors[i] = t
          /\ Whole * Cardinality({i \in 1..n : errors[i] <= t}) >= reader.percentile * n
          /\ Whole * Cardinality({i \in 1..n : errors[i] <= t - 1}) <= reader.percentile * n
        BY <1>6, <2>2, <3>2, <3>3, PercentileIs, Zenon
    <3> HIDE DEF E
    <3>5. t \in Int
        BY <3>2, <3>4
    <3>6. /\ {i \in 1..n : errors[i] <= t} = {i \in 1..n : dataset[i].value <= t}
          /\ {i \in 1..n : errors[i] <= t - 1} = {i \in 1..n : dataset[i].value <= t - 1}
        BY <3>2, <3>5
    <3>7. Cardinality(1..n) = n
      <4>1. n \in Int /\ 1 \in Int /\ n - 1 + 1 = n /\ ~(1 > n)
          BY <2>2
      <4> QED BY <4>1, FS_Interval, Zenon
    <3>8. /\ \E i \in E : dataset[i].value = t
          /\ Whole * Cardinality({i \in E : dataset[i].value <= t}) >= reader.percentile * Cardinality(E)
          /\ Whole * Cardinality({i \in E : dataset[i].value <= t - 1}) <= reader.percentile * Cardinality(E)
        BY <3>1, <3>2, <3>4, <3>6, <3>7, Zenon
    <3> QED BY <1>2, <2>1, <3>8, Zenon DEF ThresholdIsPercentile, CountIn, E
  <2> QED BY <2>1, <2>3, <2>4 DEF TrainInv, TrainingSound
<1>7. \/ reader' = [kind |-> "train", pc |-> "error"]
      \/ pass < 3 /\ Enough(pass, m[pass]) /\ reader' = [reader EXCEPT !.pass = @ + 1, !.last = 0]
      \/ /\ pass = 3 /\ Enough(pass, m[pass])
         /\ \E t \in percentile_value(errors, reader.percentile) :
               reader' = [kind |-> "train", pc |-> "done", read |-> reader.read, start |-> reader.start,
                          percentile |-> reader.percentile, threshold |-> t]
  <2>1. m[pass] = Len(reader.read[reader.pass])
      BY <1>1
  <2> HIDE DEF m
  <2> QED BY <2>1, Zenon DEF EndPass
<1> QED BY <1>4, <1>5, <1>6, <1>7, Zenon

LEMMA TrainNext ==
    ASSUME BaseInv, TrainInv, [Next]_vars
    PROVE  TrainInv'
<1>0. inserted \in Nat /\ scored \in Nat /\ faults \in Nat /\ Len(dataset) \in Nat
    BY ReadsAssumption DEF BaseInv, TypeOK
<1>1. CASE TablesGrow
  <2>1. inserted' \in Nat /\ inserted' >= inserted /\ UNCHANGED <<dataset, reader, faults>>
      BY <1>1, Zenon DEF TablesGrow
  <2>2. ThresholdIsPercentile'
      BY <2>1, Zenon DEF TrainInv, TrainingSound, ThresholdIsPercentile, CountIn
  <2>3. TrainingReadsPrefix'
    <3>1. SUFFICES ASSUME reader.kind = "train", reader.pc = "done" PROVE TrainingReadsPrefix'
        BY <2>1, Zenon DEF TrainingReadsPrefix
    <3>2. /\ Len(reader.read[1]) >= 2
          /\ \A p \in 1..3 : /\ Len(reader.read[p]) <= inserted
                             /\ \A i \in DOMAIN reader.read[p] : reader.read[p][i] = i
          /\ faults = 0 => /\ reader.start <= Len(reader.read[1])
                           /\ Len(reader.read[1]) <= Len(reader.read[2])
                           /\ Len(reader.read[2]) <= Len(reader.read[3])
        BY <3>1, Zenon DEF TrainInv, TrainingSound, TrainingReadsPrefix
    <3>3. \A p \in 1..3 : Len(reader.read[p]) <= inserted'
        BY <1>0, <2>1, <3>2
    <3> QED BY <2>1, <3>2, <3>3, Zenon DEF TrainingReadsPrefix
  <2>4. TrainScans => TrainScans'
    <3>1. SUFFICES ASSUME TrainScans PROVE TrainScans'
        OBVIOUS
    <3>2. \A k \in 0..inserted : k \in 0..inserted'
        BY <1>0, <2>1
    <3>3. reader.start <= inserted'
      <4>1. reader.start \in Nat /\ reader.start <= inserted
          BY <3>1, ScanFields, Zenon DEF TrainScans
      <4> QED BY <1>0, <2>1, <4>1
    <3> QED BY <2>1, <3>1, <3>2, <3>3, Zenon DEF TrainScans
  <2> QED BY <2>1, <2>2, <2>3, <2>4, Zenon DEF TrainInv, TrainingSound
<1>2. CASE RequestStep /\ reader'.kind # "train"
    BY <1>2, NotTraining, Zenon DEF TrainInv
<1>3. CASE RequestStep /\ reader'.kind = "train"
  <2>1. TrainStep /\ UNCHANGED <<dataset, inserted, scored>> /\ faults' \in Nat /\ faults' >= faults
      BY <1>3, ReadsAssumption DEF RequestStep, LeavesKind
  <2>2. CASE StartTraining
    <3>1. PICK p \in Percentiles : reader' = [kind |-> "train", pc |-> "scan", percentile |-> p,
              pass |-> 1, last |-> 0, read |-> <<<<>>, <<>>, <<>>>>, start |-> inserted]
        BY <2>2, Zenon DEF StartTraining, Ask
    <3> DEFINE read == <<<<>>, <<>>, <<>>>>
    <3>2. read \in [1..3 -> Seq(Nat)] /\ \A q \in 1..3 : read[q] = <<>>
      <4>1. <<>> \in Seq(Nat)
          OBVIOUS
      <4>2. read \in Seq(Seq(Nat)) /\ Len(read) = 3 /\ \A q \in 1..3 : read[q] = <<>>
          BY <4>1
      <4>3. DOMAIN read = 1..3 /\ read = [q \in DOMAIN read |-> read[q]]
          BY <4>2
      <4> QED BY <4>1, <4>2, <4>3, Zenon
    <3> HIDE DEF read
    <3>3. /\ reader' \in TrainRequest /\ reader'.kind = "train" /\ reader'.pc = "scan" /\ reader'.pass = 1
          /\ reader'.last = 0 /\ reader'.read = read /\ reader'.start = inserted
        BY <1>0, <3>1, <3>2 DEF TrainRequest, read
    <3>4. Len(<<>>) = 0 /\ Upto(0) = <<>>
        BY DEF Upto
    <3> DEFINE m == [q \in 1..3 |-> Len(read[q])]
    <3>5. \A q \in 1..3 : m[q] = 0 /\ read[q] = Upto(m[q])
        BY <3>2, <3>4
    <3>6. 0 \in 0..inserted /\ inserted <= inserted /\ 1 \in 1..3 /\ 2 \in 1..3 /\ 3 \in 1..3
          /\ ~(1 > 1) /\ ~(1 > 2)
        BY <1>0
    <3>7. /\ \A q \in 1..3 : m[q] \in 0..inserted /\ read[q] = Upto(m[q])
          /\ m[1] = 0 /\ m[2] = 0 /\ m[3] = 0
        BY <3>5, <3>6
    <3>8. TrainScans'
        BY <2>1, <3>3, <3>6, <3>7, Zenon DEF TrainScans
    <3> QED BY <3>3, <3>8, NotTraining DEF TrainInv
  <2>3. CASE TrainBatch
    <3>1. TrainScans
        BY <2>3 DEF TrainBatch, TrainInv
    <3>2. reader.last \in Nat /\ reader.last <= inserted
        BY <1>0, <3>1, ScanFields
    <3>3. CASE NextBatch(reader.last) # <<>> /\ Executed /\ TakesBatch(NextBatch(reader.last))
      <4>1. TrainScans'
          BY <2>1, <3>1, <3>3, BatchRead, Zenon DEF Executed
      <4>2. reader'.kind = "train" /\ reader'.pc = "scan"
          BY <4>1 DEF TrainScans, TrainRequest
      <4> QED BY <4>1, <4>2, NotTraining DEF TrainInv
    <3>4. CASE NextBatch(reader.last) = <<>> /\ Executed /\ EndPass
      <4>1. reader.last = inserted
          BY <1>0, <3>2, <3>4, BatchIs, Zenon
      <4> QED BY <2>1, <3>1, <3>4, <4>1, PassEnds, Zenon
    <3>5. CASE Failed /\ EndPass
      <4>1. faults' # 0
          BY <1>0, <3>5 DEF Failed
      <4> QED BY <2>1, <3>1, <3>5, <4>1, PassEnds, Zenon
    <3> QED BY <2>3, <3>3, <3>4, <3>5, Zenon DEF TrainBatch, Becomes, TakesBatch
  <2> QED BY <2>1, <2>2, <2>3, Zenon DEF TrainStep
<1> QED BY <1>1, <1>2, <1>3, Steps, Zenon

\* Each pass of a training reads a prefix of the dataset, however far the generator has
\* got, and the threshold is the percentile of the errors of the last one.
THEOREM TrainingIsSound == Spec => []TrainingSound
<1>1. Init => BaseInv /\ TrainInv
  <2>1. Init => TrainInv
      BY DEF Init, TrainInv, Idle, TrainingSound, TrainingReadsPrefix, ThresholdIsPercentile
  <2> QED BY <2>1, InitBase
<1>2. BaseInv /\ TrainInv /\ [Next]_vars => (BaseInv /\ TrainInv)'
    BY TrainNext, Steps
<1>3. TrainInv => TrainingSound
    BY Zenon DEF TrainInv
<1> QED BY <1>1, <1>2, <1>3, PTL DEF Spec

-----------------------------------------------------------------------------
(* Pages *)

LEMMA TableIs ==
    ASSUME NEW n \in 0..Len(dataset), dataset \in Datasets
    PROVE  /\ DOMAIN Table(n) = 1..n /\ Table(n) \in Seq(Record) /\ Len(Table(n)) = n
           /\ \A i \in 1..n : Table(n)[i] = dataset[i] /\ i \in 1..Len(dataset)
<1>1. dataset \in Seq(Record) /\ Len(dataset) \in Nat
    BY DatasetIs
<1>2. Table(n) \in Seq(Record) /\ Len(Table(n)) = n /\ \A i \in 1..n : Table(n)[i] = dataset[i]
    BY <1>1 DEF Table
<1> QED BY <1>1, <1>2

LEMMA ListedIs ==
    ASSUME dataset \in Datasets, NEW n \in 0..Len(dataset)
    PROVE  Listed(n) = Rows(dataset, reader)[n]
<1>1. Rows(dataset, reader)[n] = {i \in 1..n : Lists(dataset, reader, i)}
    BY Zenon DEF Rows
<1>2. CASE reader.from = "telemetry"
  <2>1. Matching(Table(n), reader.filter) = {i \in DOMAIN Table(n) : Meets(Table(n)[i], reader.filter)}
      BY Zenon DEF Matching, Meets
  <2>2. {i \in DOMAIN Table(n) : Meets(Table(n)[i], reader.filter)}
            = {i \in 1..n : Meets(dataset[i], reader.filter)}
      BY TableIs, Zenon
  <2> QED BY <1>1, <1>2, <2>1, <2>2, Zenon DEF Listed, Lists
<1>3. CASE reader.from # "telemetry"
    BY <1>1, <1>3, Zenon DEF Listed, Lists
<1> QED BY <1>2, <1>3

PagesInv ==
    reader.kind = "pages" /\ reader.pc \in {"items", "count", "done"} => Paged(dataset, reader, Held)

LEMMA HeldIs ==
    ASSUME BaseInv
    PROVE  dataset \in Datasets /\ Held \in 0..Len(dataset)
<1>1. dataset \in Datasets /\ inserted \in 0..Len(dataset) /\ scored \in 0..inserted
    BY Zenon DEF BaseInv, TypeOK
<1>2. Len(dataset) \in Nat
    BY <1>1, DatasetIs
<1>3. inserted \in 0..Len(dataset) /\ scored \in 0..Len(dataset)
    BY <1>1, <1>2
<1> QED BY <1>1, <1>3, Zenon DEF Held

LEMMA PagesNext ==
    ASSUME BaseInv, PagesInv, [Next]_vars
    PROVE  PagesInv'
<1> DEFINE h == Held
           open(pc) == pc \in {"items", "count", "done"}
<1>0. BaseInv' /\ dataset \in Datasets /\ h \in 0..Len(dataset) /\ Len(dataset) \in Nat
    BY Steps, HeldIs, DatasetIs, Zenon
<1>1. CASE TablesGrow
  <2>1. SUFFICES ASSUME reader.kind = "pages", open(reader.pc) PROVE Paged(dataset, reader, Held')
      BY <1>1, Zenon DEF PagesInv, TablesGrow
  <2>2. Paged(dataset, reader, h)
      BY <2>1, Zenon DEF PagesInv
  <2>3. inserted \in Nat /\ scored \in Nat /\ inserted' \in 0..Len(dataset) /\ scored' \in 0..Len(dataset)
        /\ inserted <= inserted' /\ scored <= scored' /\ reader' = reader
    <3>1. inserted \in 0..Len(dataset) /\ scored \in 0..inserted
        BY Zenon DEF BaseInv, TypeOK
    <3>2. inserted' \in 0..Len(dataset) /\ scored' \in 0..inserted'
        BY <1>0, <1>1, Zenon DEF BaseInv, TypeOK, TablesGrow
    <3> QED BY <1>0, <1>1, <3>1, <3>2 DEF TablesGrow
  <2>4. Held' \in 0..Len(dataset) /\ h <= Held'
      BY <2>3, Zenon DEF Held
  <2> QED BY <1>0, <2>2, <2>4, PagedGrows, Zenon
<1>2. CASE RequestStep /\ reader'.kind # "pages"
    BY <1>2, Zenon DEF PagesInv
<1>3. CASE RequestStep /\ reader'.kind = "pages"
  <2>1. PagesStep /\ UNCHANGED <<dataset, inserted, scored>>
      BY <1>3 DEF RequestStep, LeavesKind
  <2>2. Held' \in 0..Len(dataset) /\ Held' \in Nat
    <3>1. inserted \in 0..Len(dataset) /\ scored \in 0..inserted
        BY Zenon DEF BaseInv, TypeOK
    <3>2. inserted \in 0..Len(dataset) /\ scored \in 0..Len(dataset)
        BY <1>0, <3>1
    <3>3. Held' \in 0..Len(dataset)
        BY <2>1, <3>2, Zenon DEF Held
    <3> QED BY <1>0, <3>3
  <2>3. SUFFICES ASSUME open(reader'.pc) PROVE Paged(dataset, reader', Held')
      BY <2>1, Zenon DEF PagesInv
  <2>4. CASE AskSamples \/ AskScores
    <3>1. \/ \E limit \in Limits : \E dir, filter :
                reader' = [kind |-> "pages", pc |-> "items", from |-> "telemetry", dir |-> dir,
                           filter |-> filter, limit |-> limit, offset |-> 0, page |-> <<>>,
                           seen |-> <<>>, first |-> 0]
          \/ \E limit \in Limits : \E only :
                reader' = [kind |-> "pages", pc |-> "items", from |-> "scores", only_anomalies |-> only,
                           limit |-> limit, offset |-> 0, page |-> <<>>, seen |-> <<>>, first |-> 0]
        BY <2>4, Zenon DEF AskSamples, AskScores, Ask
    <3>2. \A limit \in Limits : limit \in Nat \ {0}
        BY ReadsAssumption
    <3>3. PagesFields(reader') /\ reader'.pc = "items" /\ reader'.offset = 0 /\ reader'.first = 0
          /\ reader'.seen = <<>>
      <4>1. <<>> \in Seq(Nat)
          OBVIOUS
      <4>2. CASE \E limit \in Limits : \E dir, filter :
                reader' = [kind |-> "pages", pc |-> "items", from |-> "telemetry", dir |-> dir,
                           filter |-> filter, limit |-> limit, offset |-> 0, page |-> <<>>,
                           seen |-> <<>>, first |-> 0]
          BY <3>2, <4>1, <4>2 DEF PagesFields
      <4>3. CASE \E limit \in Limits : \E only :
                reader' = [kind |-> "pages", pc |-> "items", from |-> "scores", only_anomalies |-> only,
                           limit |-> limit, offset |-> 0, page |-> <<>>, seen |-> <<>>, first |-> 0]
          BY <3>2, <4>1, <4>3 DEF PagesFields
      <4> QED BY <3>1, <4>2, <4>3
    <3> QED BY <1>0, <2>2, <3>3, FirstPage, Zenon
  <2>5. CASE PageItems \/ PageCount
    <3>1. reader.kind = "pages" /\ open(reader.pc) /\ Paged(dataset, reader, h)
        BY <2>5, Zenon DEF PageItems, PageCount, PagesInv
    <3>2. Listed(h) = Rows(dataset, reader)[h]
        BY <1>0, ListedIs, Zenon
    <3>3. \A i, j : ListedBefore(i, j) <=> Precedes(dataset, reader, i, j)
        BY Zenon DEF ListedBefore, Precedes
    <3>4. PagesFields(reader)
        BY <3>1, Zenon DEF Paged
    <3>5. (Throws => ~open(reader'.pc)) /\ (reader' = [reader EXCEPT !.pc = "partial"] => ~open(reader'.pc))
        BY <3>4 DEF Throws, PagesFields
    <3>6. CASE PageItems
      <4>1. PICK s \in Orderings(Listed(h), ListedBefore) :
                reader' = Fetched(reader, Page(s, reader.limit, reader.offset), h)
          BY <2>3, <3>5, <3>6, Zenon DEF PageItems, Becomes, Fetched
      <4>2. /\ reader.pc = "items" /\ s \in Injection(1..Cardinality(Listed(h)), Listed(h))
            /\ \A i, j \in DOMAIN s : i < j => ~Precedes(dataset, reader, s[j], s[i])
          BY <3>3, <3>6, <4>1, Zenon DEF Orderings, PageItems
      <4>3. Paged(dataset, reader', h)
          BY <1>0, <3>1, <3>2, <4>1, <4>2, FetchPaged, Zenon
      <4>4. reader'.from = reader.from
          BY <1>0, <3>4, <4>1 DEF Fetched, PagesFields
      <4> QED BY <2>1, <4>3, <4>4, Zenon DEF Held
    <3>7. CASE PageCount
      <4> DEFINE total == Cardinality(Listed(h))
                 more == HasMore(reader.limit, reader.offset, Len(reader.page), total)
      <4>1. reader' = Counted(reader, more) /\ reader.pc = "count"
          BY <2>3, <3>5, <3>7, Zenon DEF PageCount, Becomes, Counted
      <4>2. total \in Nat
        <5>1. Rows(dataset, reader)[h] \in SUBSET (1..h) /\ h \in Nat
            BY <1>0 DEF Rows
        <5>2. IsFiniteSet(1..h)
            BY <5>1, FS_Interval
        <5>3. Cardinality(Rows(dataset, reader)[h]) \in Nat
            BY <5>1, <5>2, CountSubset, Zenon
        <5> QED BY <3>2, <5>3, Zenon
      <4>3. more <=> reader.offset + Len(reader.page) < total
          BY <4>2 DEF HasMore, None
      <4>4. more \in BOOLEAN
        <5>1. reader.offset \in Nat /\ Len(reader.page) \in Nat
            BY <3>4 DEF PagesFields
        <5> HIDE DEF total
        <5>2. total # None /\ (reader.offset + Len(reader.page) < total) \in BOOLEAN
            BY <4>2, <5>1 DEF None
        <5> QED BY <5>2, Zenon DEF HasMore
      <4>5. Paged(dataset, reader', h)
          BY <1>0, <3>1, <3>2, <4>1, <4>3, <4>4, CountPaged, Zenon
      <4>6. reader'.from = reader.from
          BY <1>0, <3>4, <4>1 DEF Counted, PagesFields
      <4> QED BY <2>1, <4>5, <4>6, Zenon DEF Held
    <3> QED BY <2>5, <3>6, <3>7
  <2> QED BY <2>1, <2>4, <2>5, Zenon DEF PagesStep
<1> QED BY <1>1, <1>2, <1>3, Steps, Zenon

\* A client that follows the pages to their end has seen every row that was there at its
\* first page and, where new records come last, none twice.
THEOREM PagesAreSound == Spec => []PagesSound
<1>1. Init => BaseInv /\ PagesInv
  <2>1. Init => PagesInv
      BY DEF Init, PagesInv, Idle
  <2> QED BY <2>1, InitBase
<1>2. BaseInv /\ PagesInv /\ [Next]_vars => (BaseInv /\ PagesInv)'
    BY PagesNext, Steps
<1>3. ASSUME BaseInv, PagesInv PROVE PagesSound
  <2>1. SUFFICES ASSUME reader.kind = "pages", reader.pc \in {"items", "count", "done"}, Unambiguous
                 PROVE  /\ reader.pc = "done" => Listed(reader.first) \subseteq Range(reader.seen)
                        /\ /\ reader.from = "telemetry"
                           /\ \/ reader.dir = "asc"
                              \/ \E i \in Listed(reader.first) :
                                    dataset[i].metric_timestamp = reader.filter.end_time
                           => IsInjective(reader.seen)
      BY DEF PagesSound, PagesCoverStart, PagesNeverRepeat
  <2>2. Paged(dataset, reader, Held) /\ Clear(reader)
      BY <1>3, <2>1, Zenon DEF PagesInv, Unambiguous, Clear
  <2>3. PagesFields(reader) /\ reader.first \in Nat /\ reader.first <= Held /\ reader.seen \in Seq(Nat)
      BY <2>2 DEF Paged, PagesFields
  <2>4. reader.first \in 0..Len(dataset) /\ dataset \in Datasets
      BY <1>3, <2>3, HeldIs, DatasetIs
  <2>5. Listed(reader.first) = Rows(dataset, reader)[reader.first]
      BY <2>4, ListedIs, Zenon
  <2>6. ASSUME Steady(dataset, reader) PROVE IsInjective(reader.seen)
    <3>1. \A A, R, n, q : Placed(A, R, n, reader.seen, Len(reader.seen), 0, q) => IsInjective(reader.seen)
      <4>1. DOMAIN reader.seen = 1..Len(reader.seen)
          BY <2>3
      <4> QED BY <4>1, Zenon DEF Placed, IsInjective
    <3> QED BY <2>1, <2>2, <2>6, <3>1, Zenon DEF Paged, BeforePage, AfterPage, AfterPages
  <2>7. reader.pc = "done" => Rows(dataset, reader)[reader.first] \subseteq Range(reader.seen)
      BY <2>2, Zenon DEF Paged, AfterPages
  <2> QED BY <2>5, <2>6, <2>7, Zenon DEF Steady
<1> QED BY <1>1, <1>2, <1>3, PTL DEF Spec

-----------------------------------------------------------------------------
(* The most frequent groups *)

TopKInv ==
    reader.kind = "topk" =>
        /\ reader.pc \in {"total", "groups"} =>
              /\ {"kind", "pc", "column", "k", "total_distinct"} \subseteq DOMAIN reader
              /\ reader.k \in Int /\ reader.total_distinct \in Int
        /\ reader.pc = "groups" =>
              reader.total_distinct <= Distinct(dataset, inserted, reader.column)
        /\ reader.pc = "done" /\ reader.k >= 0 =>
              TopOf(SubSeq(dataset, 1, reader.at), reader.column, reader.k, reader.answer,
                    reader.total_distinct)

LEMMA TopKNext ==
    ASSUME BaseInv, TopKInv, [Next]_vars
    PROVE  TopKInv'
<1>0. dataset \in Datasets /\ inserted \in 0..Len(dataset) /\ inserted' \in 0..Len(dataset')
  <2>1. BaseInv'
      BY Steps, Zenon
  <2> QED BY <2>1, Zenon DEF BaseInv, TypeOK
<1>1. CASE TablesGrow
  <2>1. inserted <= inserted' /\ dataset' = dataset /\ reader' = reader
      BY <1>0, <1>1, DatasetIs DEF TablesGrow
  <2>2. ASSUME reader.kind = "topk", reader.pc = "groups"
        PROVE  reader.total_distinct <= Distinct(dataset, inserted', reader.column)
    <3>1. reader.total_distinct \in Int /\ reader.total_distinct <= Distinct(dataset, inserted, reader.column)
        BY <2>2, Zenon DEF TopKInv
    <3>2. /\ Distinct(dataset, inserted, reader.column) \in Nat
          /\ Distinct(dataset, inserted', reader.column) \in Nat
          /\ Distinct(dataset, inserted, reader.column) <= Distinct(dataset, inserted', reader.column)
        BY <1>0, <2>1, DistinctIs, Zenon
    <3> QED BY <3>1, <3>2
  <2> QED BY <2>1, <2>2, Zenon DEF TopKInv
<1>2. CASE RequestStep /\ reader'.kind # "topk"
    BY <1>2, Zenon DEF TopKInv
<1>3. CASE RequestStep /\ reader'.kind = "topk"
  <2>1. TopKStep /\ UNCHANGED <<dataset, inserted, scored>>
      BY <1>3 DEF RequestStep, LeavesKind
  <2>2. Throws \/ reader' = [kind |-> "topk", pc |-> "error"] => TopKInv'
      BY DEF TopKInv, Throws
  <2>3. CASE AskTopK
    <3>1. PICK column \in {"host_id", "anomaly_type"}, k \in Ks, total \in BOOLEAN :
              reader' = [kind |-> "topk", pc |-> IF total THEN "total" ELSE "groups",
                         column |-> column, k |-> k, total_distinct |-> None]
        BY <2>3, Zenon DEF AskTopK, Ask
    <3>2. /\ {"kind", "pc", "column", "k", "total_distinct"} \subseteq DOMAIN reader'
          /\ reader'.k \in Int /\ reader'.total_distinct = -1 /\ reader'.pc # "done"
        BY <3>1, ReadsAssumption DEF None
    <3>3. -1 <= Distinct(dataset, inserted, reader'.column)
      <4>1. Distinct(dataset, inserted, reader'.column) \in Nat
          BY <1>0, DistinctIs, Zenon
      <4> QED BY <4>1
    <3>4. -1 \in Int
        OBVIOUS
    <3> QED BY <2>1, <3>2, <3>3, <3>4, Zenon DEF TopKInv
  <2>4. CASE TopKTotal /\ ~Throws
    <3>1. /\ reader' = [reader EXCEPT !.pc = "groups", !.total_distinct =
                           CountDistinct(Telemetry, DOMAIN Telemetry, reader.column)]
          /\ reader.kind = "topk" /\ reader.pc = "total"
        BY <2>4, Zenon DEF TopKTotal, Becomes
    <3>2. /\ CountDistinct(Telemetry, DOMAIN Telemetry, reader.column)
                 = Distinct(dataset, inserted, reader.column)
          /\ Distinct(dataset, inserted, reader.column) \in Nat
        BY <1>0, DistinctIs, Zenon DEF Telemetry, Table
    <3>3. /\ {"kind", "pc", "column", "k", "total_distinct"} \subseteq DOMAIN reader /\ reader.k \in Int
        BY <3>1 DEF TopKInv
    <3>4. /\ DOMAIN reader' = DOMAIN reader /\ reader'.pc = "groups" /\ reader'.column = reader.column
          /\ reader'.k = reader.k
          /\ reader'.total_distinct = Distinct(dataset, inserted, reader.column)
        BY <3>1, <3>2, <3>3
    <3>5. /\ Distinct(dataset, inserted, reader.column) \in Int
          /\ Distinct(dataset, inserted, reader.column) <= Distinct(dataset, inserted, reader.column)
          /\ reader'.pc # "done"
        BY <3>2, <3>4
    <3> QED BY <2>1, <3>3, <3>4, <3>5, Zenon DEF TopKInv
  <2>5. CASE TopKGroups /\ ~Throws /\ reader' # [kind |-> "topk", pc |-> "error"]
    <3>1. PICK answer \in TopK(Telemetry, DOMAIN Telemetry, reader.column, reader.k) :
              reader' = [kind |-> "topk", pc |-> "done", column |-> reader.column, k |-> reader.k,
                         total_distinct |-> reader.total_distinct, answer |-> answer, at |-> inserted]
        BY <2>5, Zenon DEF TopKGroups, Becomes
    <3>2. reader.k \in Int /\ reader.total_distinct \in Int
          /\ reader.total_distinct <= Distinct(dataset, inserted, reader.column)
        BY <2>5, Zenon DEF TopKGroups, TopKInv
    <3>3. /\ IsFiniteSet(DOMAIN Telemetry)
          /\ reader.total_distinct <= CountDistinct(Telemetry, DOMAIN Telemetry, reader.column)
        BY <1>0, <3>2, DistinctIs, Zenon DEF Telemetry, Table
    <3>4. reader.k >= 0 => TopOf(Telemetry, reader.column, reader.k, answer, reader.total_distinct)
      <4>1. reader.k >= 0 => reader.k \in Nat
          BY <3>2
      <4> QED BY <3>2, <3>3, <4>1, TopKIs, Zenon
    <3>5. /\ reader'.column = reader.column /\ reader'.k = reader.k /\ reader'.answer = answer
          /\ reader'.total_distinct = reader.total_distinct /\ reader'.at = inserted
          /\ reader'.pc = "done" /\ reader'.pc \notin {"total", "groups"} /\ reader'.pc # "groups"
        BY <3>1
    <3> QED BY <2>1, <3>4, <3>5, Zenon DEF TopKInv, Telemetry, Table
  <2> QED BY <2>1, <2>2, <2>3, <2>4, <2>5, Zenon DEF TopKStep
<1> QED BY <1>1, <1>2, <1>3, Steps, Zenon

-----------------------------------------------------------------------------
(* The summary *)

SummaryInv ==
    reader.kind = "summary" =>
        /\ reader.pc \in {"rows", "types"} =>
              /\ {"kind", "pc", "topk", "row_count", "anomalies"} \subseteq DOMAIN reader
              /\ reader.topk \in Int
        /\ reader.pc = "types" =>
              /\ reader.anomalies \in Nat /\ reader.anomalies <= reader.row_count
              /\ reader.anomalies <= Cardinality(AnomaliesOf(SubSeq(dataset, 1, inserted)))
        /\ reader.pc = "done" => SummaryOf(SubSeq(dataset, 1, reader.at), reader.types,
                                           reader.anomalies, reader.row_count)

LEMMA SummaryNext ==
    ASSUME BaseInv, SummaryInv, [Next]_vars
    PROVE  SummaryInv'
<1> DEFINE count(n) == Cardinality(AnomaliesOf(SubSeq(dataset, 1, n)))
<1>0. dataset \in Datasets /\ inserted \in 0..Len(dataset) /\ inserted' \in 0..Len(dataset')
  <2>1. BaseInv'
      BY Steps, Zenon
  <2> QED BY <2>1, Zenon DEF BaseInv, TypeOK
<1>1. CASE TablesGrow
  <2>1. inserted <= inserted' /\ dataset' = dataset /\ reader' = reader
      BY <1>0, <1>1, DatasetIs DEF TablesGrow
  <2>2. ASSUME reader.kind = "summary", reader.pc = "types" PROVE reader.anomalies <= count(inserted')
    <3>1. reader.anomalies \in Nat /\ reader.anomalies <= count(inserted)
        BY <2>2, Zenon DEF SummaryInv
    <3>2. /\ count(inserted) \in 0..inserted /\ count(inserted') \in 0..inserted'
          /\ count(inserted) <= count(inserted')
        BY <1>0, <2>1, AnomaliesIs, Zenon
    <3> HIDE DEF count
    <3> QED BY <3>1, <3>2
  <2> QED BY <2>1, <2>2, Zenon DEF SummaryInv
<1>2. CASE RequestStep /\ reader'.kind # "summary"
    BY <1>2, Zenon DEF SummaryInv
<1>3. CASE RequestStep /\ reader'.kind = "summary"
  <2>1. SummaryStep /\ UNCHANGED <<dataset, inserted, scored>>
      BY <1>3 DEF RequestStep, LeavesKind
  <2>2. Throws => SummaryInv'
      BY DEF SummaryInv, Throws
  <2>3. CASE AskSummary
    <3>1. PICK topk \in Ks : reader' = [kind |-> "summary", pc |-> "rows", topk |-> topk,
                                        row_count |-> 0, anomalies |-> 0]
        BY <2>3, Zenon DEF AskSummary, Ask
    <3>2. /\ {"kind", "pc", "topk", "row_count", "anomalies"} \subseteq DOMAIN reader'
          /\ reader'.topk \in Int /\ reader'.pc = "rows"
        BY <3>1, ReadsAssumption
    <3>3. reader'.pc # "types" /\ reader'.pc # "done"
        BY <3>2
    <3> QED BY <3>2, <3>3, Zenon DEF SummaryInv
  <2>4. CASE SummaryRows /\ ~Throws
    <3>1. /\ reader' = [reader EXCEPT !.pc = "types", !.row_count = inserted, !.anomalies = count(inserted)]
          /\ reader.kind = "summary" /\ reader.pc = "rows"
      <4>1. CountIn(DOMAIN Telemetry, LAMBDA i : IsAnomaly(Telemetry[i])) = count(inserted)
          BY Zenon DEF CountIn, AnomaliesOf, Telemetry, Table
      <4> QED BY <2>4, <4>1, Zenon DEF SummaryRows, Becomes
    <3>2. count(inserted) \in 0..inserted
        BY <1>0, AnomaliesIs, Zenon
    <3>3. /\ {"kind", "pc", "topk", "row_count", "anomalies"} \subseteq DOMAIN reader
          /\ reader.topk \in Int
        BY <3>1 DEF SummaryInv
    <3> DEFINE c == count(inserted)
    <3> HIDE DEF c, count
    <3>4. /\ DOMAIN reader' = DOMAIN reader /\ reader'.pc = "types" /\ reader'.topk = reader.topk
          /\ reader'.anomalies = c /\ reader'.row_count = inserted
        BY <3>1, <3>3 DEF c
    <3>5. c \in Nat /\ c <= inserted /\ c <= c /\ reader'.pc # "done"
        BY <1>0, <3>2, <3>4, DatasetIs DEF c
    <3> QED BY <2>1, <3>3, <3>4, <3>5, Zenon DEF SummaryInv, c, count
  <2>5. CASE SummaryTypes /\ ~Throws
    <3>1. PICK types \in TypeCounts(Telemetry, reader.topk) :
              reader' = [kind |-> "summary", pc |-> "done", row_count |-> reader.row_count,
                         anomalies |-> reader.anomalies, types |-> types, at |-> inserted]
        BY <2>5, Zenon DEF SummaryTypes, Becomes
    <3>2. /\ reader.topk \in Int /\ reader.anomalies <= reader.row_count
          /\ reader.anomalies <= count(inserted)
        BY <2>5, Zenon DEF SummaryTypes, SummaryInv
    <3>3. IsFiniteSet(DOMAIN Telemetry)
        BY <1>0, AnomaliesIs, Zenon DEF Telemetry, Table
    <3>4. SumFunction(TypeSizes(Telemetry, types)) + types.other = Cardinality(AnomaliesOf(Telemetry))
        BY <3>1, <3>2, <3>3, TypesAddUp, Zenon
    <3>5. SummaryOf(Telemetry, types, reader.anomalies, reader.row_count)
        BY <3>2, <3>4, Zenon DEF SummaryOf, Telemetry, Table
    <3>6. /\ reader'.types = types /\ reader'.anomalies = reader.anomalies
          /\ reader'.row_count = reader.row_count /\ reader'.at = inserted
          /\ reader'.pc \notin {"rows", "types"} /\ reader'.pc # "types"
        BY <3>1
    <3> QED BY <2>1, <3>5, <3>6, Zenon DEF SummaryInv, Telemetry, Table
  <2> QED BY <2>1, <2>2, <2>3, <2>4, <2>5, Zenon DEF SummaryStep
<1> QED BY <1>1, <1>2, <1>3, Steps, Zenon

-----------------------------------------------------------------------------
(* The histogram *)

HistogramInv ==
    reader.kind = "histogram" =>
        /\ reader.pc \in {"range", "counts"} =>
              /\ {"kind", "pc", "requested_bins", "range", "filter", "counts", "at"} \subseteq DOMAIN reader
              /\ reader.requested_bins \in Int /\ reader.counts = <<>>
              /\ reader.range[1] \in Int /\ reader.range[2] \in Int
        /\ reader.pc = "counts" => reader.range[1] < reader.range[2]
        /\ reader.pc = "done" /\ reader.counts # <<>> =>
              HistogramOf(SubSeq(dataset, 1, reader.at),
                          Matching(SubSeq(dataset, 1, reader.at), reader.filter),
                          reader.range, reader.counts, Min({reader.requested_bins, MaxBins}))

LEMMA HistogramNext ==
    ASSUME BaseInv, HistogramInv, [Next]_vars
    PROVE  HistogramInv'
<1> DEFINE fields == {"kind", "pc", "requested_bins", "range", "filter", "counts", "at"}
<1>0. dataset \in Datasets /\ inserted \in 0..Len(dataset)
    BY Zenon DEF BaseInv, TypeOK
<1>1. CASE TablesGrow
  <2>1. dataset' = dataset /\ reader' = reader
      BY <1>1, Zenon DEF TablesGrow
  <2> QED BY <2>1, Zenon DEF HistogramInv
<1>2. CASE RequestStep /\ reader'.kind # "histogram"
    BY <1>2, Zenon DEF HistogramInv
<1>3. CASE RequestStep /\ reader'.kind = "histogram"
  <2>1. HistogramStep /\ UNCHANGED <<dataset, inserted, scored>>
      BY <1>3 DEF RequestStep, LeavesKind
  <2>2. Throws \/ reader' = [kind |-> "histogram", pc |-> "error"] => HistogramInv'
      BY DEF HistogramInv, Throws
  <2>3. CASE AskHistogram
    <3>1. PICK bins \in Bins, range \in Ranges : \E filter :
              reader' = [kind |-> "histogram", pc |-> "range", requested_bins |-> bins,
                         range |-> range, filter |-> filter, counts |-> <<>>, at |-> 0]
        BY <2>3, Zenon DEF AskHistogram, Ask
    <3>2. bins \in Int /\ range[1] \in Int /\ range[2] \in Int
        BY ReadsAssumption
    <3>3. /\ fields \subseteq DOMAIN reader' /\ reader'.requested_bins = bins /\ reader'.range = range
          /\ reader'.pc = "range" /\ reader'.counts = <<>>
        BY <3>1
    <3>4. reader'.pc # "counts" /\ reader'.pc # "done"
        BY <3>3
    <3> QED BY <3>2, <3>3, <3>4, Zenon DEF HistogramInv
  <2>4. CASE HistogramFindRange /\ ~Throws
    <3> DEFINE range == HistogramRange(Telemetry, reader.range[1], reader.range[2])
    <3>1. /\ fields \subseteq DOMAIN reader /\ reader.requested_bins \in Int /\ reader.counts = <<>>
          /\ reader.range[1] \in Int /\ reader.range[2] \in Int
      <4>1. reader.kind = "histogram" /\ reader.pc \in {"range", "counts"}
          BY <2>4 DEF HistogramFindRange
      <4> QED BY <4>1, Zenon DEF HistogramInv
    <3>2. reader' = [reader EXCEPT !.range = range, !.at = inserted,
                                   !.pc = IF range[2] <= range[1] THEN "done" ELSE "counts"]
        BY <2>4, Zenon DEF HistogramFindRange, Becomes
    <3>3. range[1] \in Int /\ range[2] \in Int
        BY <1>0, <3>1, RangeIs, Zenon DEF Telemetry, Table
    <3> HIDE DEF range
    <3>4. /\ fields \subseteq DOMAIN reader' /\ reader'.requested_bins = reader.requested_bins
          /\ reader'.range = range /\ reader'.counts = reader.counts
          /\ reader'.pc = IF range[2] <= range[1] THEN "done" ELSE "counts"
        BY <3>1, <3>2
    <3>5. reader'.pc = "counts" => range[1] < range[2]
        BY <3>3, <3>4
    <3> QED BY <3>1, <3>3, <3>4, <3>5, Zenon DEF HistogramInv
  <2>5. CASE HistogramCounts /\ ~Throws /\ reader' # [kind |-> "histogram", pc |-> "error"]
    <3> DEFINE S == Matching(Telemetry, reader.filter)
               bins == Min({reader.requested_bins, MaxBins})
               counts == Histogram(Telemetry, S, reader.range[1], reader.range[2], bins)
    <3>1. /\ fields \subseteq DOMAIN reader /\ reader.requested_bins \in Int
          /\ reader.range[1] \in Int /\ reader.range[2] \in Int /\ reader.range[1] < reader.range[2]
      <4>1. reader.kind = "histogram" /\ reader.pc = "counts" /\ reader.pc \in {"range", "counts"}
          BY <2>5 DEF HistogramCounts
      <4> QED BY <4>1, Zenon DEF HistogramInv
    <3>2. /\ ~(bins < 0) /\ ~BucketsRejected(S, reader.range[1], reader.range[2], bins)
          /\ reader' = [reader EXCEPT !.pc = "done", !.at = inserted, !.counts = counts]
        BY <2>5, Zenon DEF HistogramCounts, Becomes
    <3>3. IsFiniteSet(S) /\ \A i \in S : Telemetry[i].value \in Int
      <4>1. /\ IsFiniteSet(S) /\ S \in SUBSET (1..inserted)
            /\ \A i \in 1..inserted : Telemetry[i] = dataset[i] /\ dataset[i].value \in Int
          BY <1>0, MatchingIs, Zenon DEF Telemetry, Table
      <4> HIDE DEF S
      <4> QED BY <4>1, Zenon
    <3>4. counts # <<>> => HistogramOf(Telemetry, S, reader.range, counts, bins)
      <4>1. MaxBins \in Int
          BY ReadsAssumption
      <4>2. bins \in Int
          BY <3>1, <4>1, MinOfTwo
      <4>3. bins = 0 => counts = <<>>
        <5> DEFINE Of(b) == CountIn(S, LAMBDA i : width_bucket(Telemetry[i].value,
                                to_string(reader.range[1]), to_string(reader.range[2]), bins) = b)
        <5>1. counts = [b \in 1..bins |-> Of(b)]
            BY Zenon DEF Histogram
        <5> HIDE DEF Of, counts, bins
        <5> QED BY <5>1
      <4> HIDE DEF bins, S, counts
      <4>4. CASE bins # 0
        <5>1. bins \in Nat \ {0}
            BY <3>2, <4>2, <4>4
        <5> QED BY <3>1, <3>2, <3>3, <5>1, HistogramIs, Zenon DEF counts
      <4> QED BY <4>3, <4>4, Zenon
    <3> HIDE DEF counts
    <3>5. /\ reader'.requested_bins = reader.requested_bins /\ reader'.range = reader.range
          /\ reader'.filter = reader.filter /\ reader'.counts = counts /\ reader'.at = inserted
          /\ reader'.pc \notin {"range", "counts"} /\ reader'.pc # "counts"
        BY <3>1, <3>2
    <3> QED BY <2>1, <3>4, <3>5, Zenon DEF HistogramInv, Telemetry, Table
  <2> QED BY <2>1, <2>2, <2>3, <2>4, <2>5, Zenon DEF HistogramStep
<1> QED BY <1>1, <1>2, <1>3, Steps, Zenon

-----------------------------------------------------------------------------
(* The time series *)

SeriesInv ==
    LET S == InWindow(SubSeq(dataset, 1, reader.at), reader.window)
    IN  reader.kind = "series" =>
            /\ reader.pc \in {"window", "baseline"} =>
                  /\ reader.size \in Nat \ {0}
                  /\ \A w \in reader.baseline : Previous(reader.window, w)
            /\ reader.pc \in {"baseline", "done", "compared"} => SeriesOf(dataset, S, reader.items, reader.size)
            /\ reader.pc = "baseline" => reader.at \in 0..Len(dataset)
            /\ reader.pc = "compared" => ComparedOf(dataset, reader.window, S, reader.then,
                  InWindow(SubSeq(dataset, 1, reader.then), reader.baseline), reader.before)

LEMMA SeriesNext ==
    ASSUME BaseInv, SeriesInv, [Next]_vars
    PROVE  SeriesInv'
<1>0. dataset \in Datasets /\ inserted \in 0..Len(dataset)
    BY Zenon DEF BaseInv, TypeOK
<1>1. CASE TablesGrow
  <2>1. dataset' = dataset /\ reader' = reader
      BY <1>1, Zenon DEF TablesGrow
  <2> QED BY <2>1, Zenon DEF SeriesInv, InWindow
<1>2. CASE RequestStep /\ reader'.kind # "series"
    BY <1>2, Zenon DEF SeriesInv
<1>3. CASE RequestStep /\ reader'.kind = "series"
  <2>1. SeriesStep /\ dataset' = dataset
      BY <1>3 DEF RequestStep, LeavesKind
  <2>2. Throws => SeriesInv'
      BY DEF SeriesInv, Throws
  <2>3. CASE AskTimeSeries
    <3>1. PICK v \in Windows, bucket \in {"1m", "auto"} : \E baseline :
              /\ baseline \subseteq PreviousPeriodWindow(v[1], v[2])
              /\ reader' = [kind |-> "series", pc |-> "window", window |-> v, baseline |-> baseline,
                            size |-> BucketSeconds(bucket, v[1], v[2])]
      <4>1. \A A : A \subseteq A /\ {} \subseteq A
          OBVIOUS
      <4>2. PICK v \in Windows, bucket \in {"1m", "auto"}, compare \in BOOLEAN :
                reader' = [kind |-> "series", pc |-> "window", window |-> v,
                           baseline |-> IF compare THEN PreviousPeriodWindow(v[1], v[2]) ELSE {},
                           size |-> BucketSeconds(bucket, v[1], v[2])]
          BY <2>3, Zenon DEF AskTimeSeries, Ask
      <4> QED BY <4>1, <4>2, Zenon
    <3>2. v[1] \in Nat \cup {-1} /\ v[2] \in Nat \cup {-1}
        BY ReadsAssumption DEF None
    <3>3. BucketSeconds(bucket, v[1], v[2]) \in Nat \ {0}
      <4>1. v[1] \in Int /\ v[2] \in Int
          BY <3>2
      <4> QED BY <4>1, BucketSize, Zenon
    <3>4. \A w \in PreviousPeriodWindow(v[1], v[2]) : Previous(v, w)
        BY <3>2 DEF PreviousPeriodWindow, Previous, None
    <3> DEFINE size == BucketSeconds(bucket, v[1], v[2])
    <3> HIDE DEF size
    <3>5. /\ reader'.pc = "window" /\ reader'.window = v /\ reader'.size = size
          /\ reader'.baseline \subseteq PreviousPeriodWindow(v[1], v[2])
        BY <3>1 DEF size
    <3>6. reader'.pc \notin {"baseline", "done", "compared"} /\ reader'.pc # "baseline"
          /\ reader'.pc # "compared"
        BY <3>5
    <3> QED BY <3>3, <3>4, <3>5, <3>6, Zenon DEF SeriesInv, size
  <2>4. CASE SeriesWindow /\ ~Throws
    <3> DEFINE S == InWindow(Telemetry, reader.window)
               items == GetTimeSeries(Telemetry, S, reader.size)
    <3>1. reader' = [kind |-> "series", pc |-> IF reader.baseline = {} THEN "done" ELSE "baseline",
                     window |-> reader.window, baseline |-> reader.baseline, size |-> reader.size,
                     items |-> items, at |-> inserted]
        BY <2>4, Zenon DEF SeriesWindow, Becomes
    <3>2. reader.size \in Nat \ {0} /\ \A w \in reader.baseline : Previous(reader.window, w)
      <4>1. reader.kind = "series" /\ reader.pc \in {"window", "baseline"}
          BY <2>4 DEF SeriesWindow
      <4> QED BY <4>1, Zenon DEF SeriesInv
    <3>3. IsFiniteSet(S) /\ S \in SUBSET (1..inserted)
        BY <1>0, InWindowIn, Zenon DEF Telemetry, Table
    <3>4. SeriesOf(dataset, S, items, reader.size)
        BY <1>0, <3>2, <3>3, SeriesIs, Zenon DEF Telemetry, Table
    <3> HIDE DEF items
    <3>5. /\ reader'.window = reader.window /\ reader'.baseline = reader.baseline
          /\ reader'.size = reader.size /\ reader'.items = items /\ reader'.at = inserted
          /\ reader'.pc # "compared"
        BY <3>1
    <3> QED BY <1>0, <2>1, <3>2, <3>4, <3>5, Zenon DEF SeriesInv, Telemetry, Table, InWindow
  <2>5. CASE SeriesBaseline /\ ~Throws
    <3>1. PICK w \in reader.baseline :
              reader' = [kind |-> "series", pc |-> "compared", window |-> reader.window, baseline |-> w,
                         items |-> reader.items, at |-> reader.at,
                         before |-> GetTimeSeries(Telemetry, InWindow(Telemetry, w), reader.size),
                         size |-> reader.size, then |-> inserted]
        BY <2>5, Zenon DEF SeriesBaseline, Becomes
    <3> DEFINE S == InWindow(SubSeq(dataset, 1, reader.at), reader.window)
               B == InWindow(Telemetry, w)
               before == GetTimeSeries(Telemetry, B, reader.size)
    <3>2. /\ reader.size \in Nat \ {0} /\ Previous(reader.window, w) /\ reader.at \in 0..Len(dataset)
          /\ SeriesOf(dataset, S, reader.items, reader.size)
      <4>1. /\ reader.kind = "series" /\ reader.pc = "baseline"
            /\ reader.pc \in {"window", "baseline"} /\ reader.pc \in {"baseline", "done", "compared"}
          BY <2>5 DEF SeriesBaseline
      <4> QED BY <3>1, <4>1, Zenon DEF SeriesInv
    <3>3. IsFiniteSet(B) /\ B \in SUBSET (1..inserted)
        BY <1>0, InWindowIn, Zenon DEF Telemetry, Table
    <3>4. SumFunction(before) = Cardinality(B)
      <4>1. SeriesOf(dataset, B, before, reader.size)
          BY <1>0, <3>2, <3>3, SeriesIs, Zenon DEF Telemetry, Table
      <4> QED BY <4>1, Zenon DEF SeriesOf
    <3>5. ComparedOf(dataset, reader.window, S, inserted, B, before)
        BY <1>0, <3>2, <3>4, ComparedIs, Zenon DEF Telemetry, Table
    <3> HIDE DEF before
    <3>6. /\ reader'.window = reader.window /\ reader'.baseline = w /\ reader'.size = reader.size
          /\ reader'.items = reader.items /\ reader'.at = reader.at /\ reader'.before = before
          /\ reader'.then = inserted /\ reader'.pc \notin {"window", "baseline"} /\ reader'.pc # "baseline"
        BY <3>1 DEF before
    <3> QED BY <2>1, <3>2, <3>5, <3>6, Zenon DEF SeriesInv, Telemetry, Table, InWindow
  <2> QED BY <2>1, <2>2, <2>3, <2>4, <2>5, Zenon DEF SeriesStep
<1> QED BY <1>1, <1>2, <1>3, Steps, Zenon

-----------------------------------------------------------------------------
(* The evaluation *)

EvalInv ==
    reader.kind = "eval" /\ reader.pc = "done" /\ reader.samples # <<>> =>
        EvalOf(reader.roc, reader.confusion)

LEMMA SamplesAre ==
    ASSUME BaseInv, NEW S \in SUBSET (1..scored), NEW x,
           x = [i \in 1..Cardinality(S) |-> Sample(InSomeOrder(S)[i])], x # <<>>
    PROVE  IsSamples(x, Cardinality(S))
<1> DEFINE m == Cardinality(S)
           order == InSomeOrder(S)
<1>1. scored \in 0..Len(dataset) /\ dataset \in Seq(Record) /\ Len(dataset) \in Nat
  <2>1. dataset \in Datasets /\ inserted \in 0..Len(dataset) /\ scored \in 0..inserted
      BY Zenon DEF BaseInv, TypeOK
  <2>2. dataset \in Seq(Record) /\ Len(dataset) \in Nat
      BY <2>1, DatasetIs
  <2> QED BY <2>1, <2>2
<1>2. IsFiniteSet(S)
  <2>1. IsFiniteSet(1..scored)
      BY <1>1, FS_Interval
  <2> QED BY <2>1, CountSubset, Zenon
<1>3. m \in Nat /\ \E s : s \in Injection(1..m, S)
    BY <1>2, FS_CardinalityType, Zenon DEF ExistsBijection, Bijection
<1>4. order \in Injection(1..m, S)
    BY <1>3, Zenon DEF InSomeOrder
<1> HIDE DEF m, order
<1>5. \A i \in 1..m : order[i] \in S
    BY <1>4 DEF Injection
<1>6. x = [i \in 1..m |-> Sample(order[i])]
    BY Zenon DEF m, order
<1>7. m # 0
  <2> SUFFICES ASSUME m = 0 PROVE x = <<>>
      OBVIOUS
  <2>1. 1..m = {}
      OBVIOUS
  <2> QED BY <1>6, <2>1
<1>8. \A j \in S : /\ Sample(j).err \in Int
                   /\ Sample(j).pred \in BOOLEAN /\ Sample(j).label \in BOOLEAN
  <2> TAKE j \in S
  <2>1. dataset[j] \in Record
      BY <1>1
  <2>2. dataset[j].value \in Int
      BY <2>1 DEF Record
  <2> DEFINE v == dataset[j].value
             a == v > Threshold
             b == IsAnomaly(dataset[j])
  <2>3. a \in BOOLEAN /\ b \in BOOLEAN
    <3>1. b \in BOOLEAN
        BY Zenon DEF IsAnomaly
    <3> HIDE DEF b
    <3>2. a \in BOOLEAN
      <4> HIDE DEF v
      <4> QED OBVIOUS
    <3> QED BY <3>1, <3>2, Zenon
  <2>4. Sample(j) = [err |-> v, pred |-> a, label |-> b]
      BY Zenon DEF Sample
  <2> HIDE DEF v, a, b
  <2>5. Sample(j).err = v /\ Sample(j).pred = a /\ Sample(j).label = b
      BY <2>4
  <2> QED BY <2>2, <2>3, <2>5, Zenon DEF v
<1>9. \A i \in 1..m : x[i] = Sample(order[i])
    BY <1>6, Zenon
<1>10. DOMAIN x = 1..m /\ m \in Nat \ {0}
    BY <1>3, <1>6, <1>7
<1> QED BY <1>5, <1>8, <1>9, <1>10, Zenon DEF IsSamples, m

LEMMA EvalNext ==
    ASSUME BaseInv, EvalInv, [Next]_vars
    PROVE  EvalInv'
<1>1. CASE TablesGrow
  <2>1. reader' = reader
      BY <1>1, Zenon DEF TablesGrow
  <2> QED BY <2>1, Zenon DEF EvalInv
<1>2. CASE RequestStep /\ reader'.kind # "eval"
    BY <1>2, Zenon DEF EvalInv
<1>3. CASE RequestStep /\ reader'.kind = "eval"
  <2>1. EvalStep
      BY <1>3 DEF RequestStep, LeavesKind
  <2>2. CASE AskEval
    <3>1. reader'.pc = "scores"
        BY <2>2 DEF AskEval, Ask
    <3> QED BY <3>1 DEF EvalInv
  <2>3. CASE EvalScores /\ reader'.pc = "done"
    <3>0. PICK S \in SUBSET (1..scored) : \E x :
              /\ x = [i \in 1..Cardinality(S) |-> Sample(InSomeOrder(S)[i])]
              /\ reader' = [kind |-> "eval", pc |-> "done", samples |-> x,
                            confusion |-> Confusion(x), roc |-> Roc(x, 0)]
      <4>1. reader' # [kind |-> "eval", pc |-> "partial"]
          BY <2>3
      <4> QED BY <2>3, <4>1, Zenon DEF EvalScores, Becomes
    <3>1. PICK x :
              /\ x = [i \in 1..Cardinality(S) |-> Sample(InSomeOrder(S)[i])]
              /\ reader' = [kind |-> "eval", pc |-> "done", samples |-> x,
                            confusion |-> Confusion(x), roc |-> Roc(x, 0)]
        BY <3>0, Zenon
    <3> DEFINE roc == Roc(x, 0)
               c == Confusion(x)
    <3>2. x # <<>> => EvalOf(roc, c)
      <4>1. 0 \in Int
          OBVIOUS
      <4> QED BY <3>1, <4>1, SamplesAre, RocIs, Zenon
    <3> HIDE DEF roc, c
    <3>3. reader'.samples = x /\ reader'.roc = roc /\ reader'.confusion = c
        BY <3>1 DEF roc, c
    <3> QED BY <3>2, <3>3, Zenon DEF EvalInv
  <2>4. CASE reader'.pc # "done"
      BY <2>4, Zenon DEF EvalInv
  <2> QED BY <2>1, <2>2, <2>3, <2>4, Zenon DEF EvalStep
<1> QED BY <1>1, <1>2, <1>3, Steps, Zenon

-----------------------------------------------------------------------------
AggregatesInv == TopKInv /\ HistogramInv /\ SummaryInv /\ SeriesInv /\ EvalInv

LEMMA AggregatesNext ==
    ASSUME BaseInv, AggregatesInv, [Next]_vars
    PROVE  AggregatesInv'
BY TopKNext, HistogramNext, SummaryNext, SeriesNext, EvalNext, Zenon DEF AggregatesInv

LEMMA AggregatesInit == Init => AggregatesInv
<1> SUFFICES ASSUME Init PROVE AggregatesInv
    OBVIOUS
<1>1. reader.kind = "idle"
    BY DEF Init, Idle
<1>2. /\ reader.kind # "topk" /\ reader.kind # "histogram" /\ reader.kind # "summary"
      /\ reader.kind # "series" /\ reader.kind # "eval"
    BY <1>1
<1> QED BY <1>2, Zenon DEF AggregatesInv, TopKInv, HistogramInv, SummaryInv, SeriesInv, EvalInv

LEMMA AggregatesAre == ASSUME AggregatesInv PROVE AggregatesExact
<1> USE DEF AggregatesInv
<1>1. TopKIsTop
    BY Zenon DEF TopKInv, TopKIsTop, TopOf, Table
<1>2. HistogramPartition
    BY Zenon DEF HistogramInv, HistogramPartition, HistogramOf, Inside, InRange, Slack, Table, CountIn
<1>3. SummaryAddsUp
    BY Zenon DEF SummaryInv, SummaryAddsUp, SummaryOf, TypeSizes, AnomaliesOf, Table
<1>4. SeriesCountOnce
  <2>1. ASSUME reader.kind = "series", reader.pc \in {"done", "compared"}
        PROVE  SeriesOf(dataset, InWindow(Table(reader.at), reader.window), reader.items, reader.size)
    <3>1. reader.pc \in {"baseline", "done", "compared"}
        BY <2>1
    <3> QED BY <2>1, <3>1, Zenon DEF SeriesInv, Table
  <2>2. ASSUME reader.kind = "series", reader.pc = "compared"
        PROVE  ComparedOf(dataset, reader.window, InWindow(Table(reader.at), reader.window), reader.then,
                          InWindow(Table(reader.then), reader.baseline), reader.before)
      BY <2>2, Zenon DEF SeriesInv, Table
  <2> QED BY <2>1, <2>2, Zenon DEF SeriesCountOnce, SeriesOf, InBucket, ComparedOf, CountIn
<1>5. RocEndsAtAll
    BY Zenon DEF EvalInv, RocEndsAtAll, EvalOf, Rises
<1> QED BY <1>1, <1>2, <1>3, <1>4, <1>5, Zenon DEF AggregatesExact

\* Every answered aggregate is exact for the records its statements saw, for any
\* dataset, any parameters and any interleaving with the generator and the scoring
\* job: GetTopK lists the most frequent groups and says when it leaves some out,
\* GetHistogram counts each record of the printed range once, in the bin between whose
\* edges it lies up to what printing the bounds moves them, the types of GetDatasetSummary add up to the anomalies, GetTimeSeries counts
\* each record of the window once, and the ROC curve of GetEvalMetrics rises to all
\* samples, which are those of the confusion matrix.
THEOREM AggregatesAreExact == Spec => []AggregatesExact
<1>1. Init => BaseInv /\ AggregatesInv
    BY InitBase, AggregatesInit
<1>2. BaseInv /\ AggregatesInv /\ [Next]_vars => (BaseInv /\ AggregatesInv)'
    BY AggregatesNext, Steps
<1>3. AggregatesInv => AggregatesExact
    BY AggregatesAre
<1> QED BY <1>1, <1>2, <1>3, PTL DEF Spec
=============================================================================

-------------------------- MODULE GeneratorProofs ---------------------------
(***************************************************************************)
(* Proofs about                                                            *)
(*  - Generator, for any number of hosts and timestamps and any sizes of   *)
(*    batches and queue;                                                   *)
(*  - PcaModelCache, for any callers, models, memory usages and limits.    *)
(***************************************************************************)
EXTENDS Generator, PcaModelCache, DataLemmas

-----------------------------------------------------------------------------
(* Generator *)

\* The records 1..N are spread over the batches B and W, the sets A, D and F and the
\* batches of the queue Q, and none is in two of these places.
Spread(N, B, W, A, D, F, Q) ==
    /\ \A x \in 1..N : \/ x \in B \/ x \in W \/ x \in A \/ x \in D \/ x \in F
                       \/ \E k \in 1..Len(Q) : x \in Q[k]
    /\ B \subseteq 1..N /\ W \subseteq 1..N /\ A \subseteq 1..N /\ D \subseteq 1..N /\ F \subseteq 1..N
    /\ \A k \in 1..Len(Q) : Q[k] \subseteq 1..N
    /\ \A x : /\ x \in B => x \notin W /\ x \notin A /\ x \notin D /\ x \notin F
              /\ x \in W => x \notin A /\ x \notin D /\ x \notin F
              /\ x \in A => x \notin D /\ x \notin F
              /\ x \in D => x \notin F
    /\ \A k \in 1..Len(Q) : \A x \in Q[k] : x \notin B /\ x \notin W /\ x \notin A /\ x \notin D /\ x \notin F
    /\ \A k, l \in 1..Len(Q) : k # l => \A x \in Q[k] : x \notin Q[l]

-----------------------------------------------------------------------------
(* Moving records from one place to another *)

\* GenerateRecord: a new record goes into the batch.
LEMMA SpreadGenerate ==
    ASSUME NEW N \in Nat, NEW B, NEW W, NEW A, NEW D, NEW F, NEW Q, Spread(N, B, W, A, D, F, Q)
    PROVE  Spread(N + 1, B \cup {N + 1}, W, A, D, F, Q)
BY DEF Spread

\* EnqueueBatch: the batch goes to the end of the queue.
LEMMA SpreadAppend ==
    ASSUME NEW S, NEW N \in Nat, NEW B \in S, NEW W, NEW A, NEW D, NEW F, NEW Q \in Seq(S),
           Spread(N, B, W, A, D, F, Q)
    PROVE  Spread(N, {}, W, A, D, F, Append(Q, B))
<1> DEFINE R == Append(Q, B)
<1>1. /\ Len(R) = Len(Q) + 1 /\ Len(Q) \in Nat
      /\ \A k \in 1..Len(Q) : R[k] = Q[k]
      /\ R[Len(Q) + 1] = B
    OBVIOUS
<1> HIDE DEF R
<1>2. \A k \in 1..Len(R) : k \in 1..Len(Q) \/ (k = Len(Q) + 1 /\ R[k] = B)
    BY <1>1
<1>3. \A k \in 1..Len(Q) : k \in 1..Len(R)
    BY <1>1
<1>4. Len(Q) + 1 \in 1..Len(R)
    BY <1>1
<1>5. Spread(N, {}, W, A, D, F, R)
    BY <1>1, <1>2, <1>3, <1>4, Zenon DEF Spread
<1> QED BY <1>5 DEF R

\* ... or is dropped.
LEMMA SpreadDrop ==
    ASSUME NEW N \in Nat, NEW B, NEW W, NEW A, NEW D, NEW F, NEW Q, Spread(N, B, W, A, D, F, Q)
    PROVE  Spread(N, {}, W, A, D \cup B, F, Q)
BY DEF Spread

\* WriterPop: the first batch of the queue goes to the writer.
LEMMA SpreadPop ==
    ASSUME NEW S, NEW N \in Nat, NEW B, NEW A, NEW D, NEW F, NEW Q \in Seq(S), Q # << >>,
           Spread(N, B, {}, A, D, F, Q)
    PROVE  Spread(N, B, Head(Q), A, D, F, Tail(Q))
<1> DEFINE R == Tail(Q)
<1>1. /\ Len(R) = Len(Q) - 1 /\ Len(Q) \in Nat \ {0} /\ Head(Q) = Q[1]
      /\ \A k \in 1..Len(R) : R[k] = Q[k + 1]
    OBVIOUS
<1> HIDE DEF R
<1>2. \A k \in 1..Len(R) : k + 1 \in 1..Len(Q) /\ k + 1 # 1 /\ R[k] = Q[k + 1]
    BY <1>1
<1>3. \A k \in 1..Len(Q) : k = 1 \/ (k - 1 \in 1..Len(R) /\ R[k - 1] = Q[k])
    BY <1>1
<1>4. 1 \in 1..Len(Q)
    BY <1>1
<1>5. \A k, l \in 1..Len(R) : k # l => k + 1 # l + 1
    BY <1>1
<1>6. Spread(N, B, Q[1], A, D, F, R)
  <2>1. \A x \in 1..N : \/ x \in B \/ x \in Q[1] \/ x \in A \/ x \in D \/ x \in F
                        \/ \E k \in 1..Len(R) : x \in R[k]
    <3> SUFFICES ASSUME NEW x \in 1..N, NEW k \in 1..Len(Q), x \in Q[k]
                 PROVE  x \in Q[1] \/ \E l \in 1..Len(R) : x \in R[l]
        BY Zenon DEF Spread
    <3> QED BY <1>3, Zenon
  <2>2. Q[1] \subseteq 1..N /\ \A k \in 1..Len(R) : R[k] \subseteq 1..N
      BY <1>2, <1>4, Zenon DEF Spread
  <2>3. \A x : /\ x \in B => x \notin Q[1]
               /\ x \in Q[1] => x \notin A /\ x \notin D /\ x \notin F
      BY <1>4, Zenon DEF Spread
  <2>4. \A k \in 1..Len(R) : \A x \in R[k] :
            x \notin B /\ x \notin Q[1] /\ x \notin A /\ x \notin D /\ x \notin F
    <3> SUFFICES ASSUME NEW k \in 1..Len(R), NEW x \in R[k]
                 PROVE  x \notin B /\ x \notin Q[1] /\ x \notin A /\ x \notin D /\ x \notin F
        BY Zenon
    <3>1. k + 1 \in 1..Len(Q) /\ k + 1 # 1 /\ x \in Q[k + 1]
        BY <1>2, Zenon
    <3> QED BY <1>4, <3>1, Zenon DEF Spread
  <2>5. \A k, l \in 1..Len(R) : k # l => \A x \in R[k] : x \notin R[l]
    <3> SUFFICES ASSUME NEW k \in 1..Len(R), NEW l \in 1..Len(R), k # l, NEW x \in R[k]
                 PROVE  x \notin R[l]
        BY Zenon
    <3>1. k + 1 \in 1..Len(Q) /\ l + 1 \in 1..Len(Q) /\ x \in Q[k + 1] /\ R[l] = Q[l + 1]
        BY <1>2, Zenon
    <3> QED BY <1>5, <3>1, Zenon DEF Spread
  <2> QED BY <2>1, <2>2, <2>3, <2>4, <2>5, Zenon DEF Spread
<1> QED BY <1>1, <1>6 DEF R

\* WriterInsert: the writer's batch goes into the table or fails.
LEMMA SpreadInsert ==
    ASSUME NEW N \in Nat, NEW B, NEW W, NEW A, NEW D, NEW F, NEW Q, Spread(N, B, W, A, D, F, Q)
    PROVE  Spread(N, B, {}, A \cup W, D, F, Q) /\ Spread(N, B, {}, A, D, F \cup W, Q)
BY DEF Spread

\* Crash: the queue is lost.
LEMMA SpreadLose ==
    ASSUME NEW S, NEW N \in Nat, NEW B, NEW W, NEW A, NEW D, NEW F, NEW Q \in Seq(S),
           Spread(N, B, W, A, D, F, Q)
    PROVE  Spread(N, B, W, A, D \cup UNION Range(Q), F, << >>)
<1>1. \A x : x \in UNION Range(Q) <=> \E k \in 1..Len(Q) : x \in Q[k]
    BY DEF Range
<1>2. 1..Len(<< >>) = {}
    OBVIOUS
<1> QED BY <1>1, <1>2, Zenon DEF Spread

\* Nothing else is accounted for.
LEMMA SpreadAccounts ==
    ASSUME write_queue \in Seq(SUBSET Records),
           Spread(n, batch, writing, archived, dropped, failed, write_queue)
    PROVE  RecordsAccounted
<1> DEFINE q == write_queue
<1>1. /\ Len(q) \in Nat /\ DOMAIN Places = 1..(5 + Len(q))
      /\ Places[1] = batch /\ Places[2] = writing /\ Places[3] = archived
      /\ Places[4] = dropped /\ Places[5] = failed
      /\ \A k \in 1..Len(q) : Places[5 + k] = q[k]
    BY DEF Places
<1>2. \A i \in DOMAIN Places : \/ i \in 1..5
                               \/ i - 5 \in 1..Len(q) /\ Places[i] = q[i - 5]
    BY <1>1
<1>3. 1..n = UNION {Places[i] : i \in DOMAIN Places}
  <2>1. ASSUME NEW x \in 1..n PROVE \E i \in DOMAIN Places : x \in Places[i]
    <3>1. CASE \E k \in 1..Len(q) : x \in q[k]
        BY <1>1, <3>1
    <3>2. CASE x \in batch \/ x \in writing \/ x \in archived \/ x \in dropped \/ x \in failed
      <4>1. 1 \in DOMAIN Places /\ 2 \in DOMAIN Places /\ 3 \in DOMAIN Places
            /\ 4 \in DOMAIN Places /\ 5 \in DOMAIN Places
          BY <1>1
      <4> QED BY <1>1, <3>2, <4>1, Zenon
    <3> QED BY <3>1, <3>2 DEF Spread
  <2>2. ASSUME NEW i \in DOMAIN Places PROVE Places[i] \subseteq 1..n
    <3>1. CASE i \in 1..5
      <4>1. i = 1 \/ i = 2 \/ i = 3 \/ i = 4 \/ i = 5
          BY <3>1
      <4>2. /\ batch \subseteq 1..n /\ writing \subseteq 1..n /\ archived \subseteq 1..n
            /\ dropped \subseteq 1..n /\ failed \subseteq 1..n
          BY DEF Spread
      <4> QED BY <1>1, <4>1, <4>2, Zenon
    <3>2. CASE i - 5 \in 1..Len(q) /\ Places[i] = q[i - 5]
        BY <3>2 DEF Spread
    <3> QED BY <1>2, <3>1, <3>2, Zenon
  <2> QED BY <2>1, <2>2
<1>4. ASSUME NEW i \in DOMAIN Places, NEW j \in DOMAIN Places, i # j
      PROVE  Places[i] \cap Places[j] = {}
  <2>0. i \in Int /\ j \in Int
      BY <1>1
  <2>1. CASE i \in 1..5 /\ j \in 1..5
      BY <1>1, <1>4, <2>1 DEF Spread
  <2>2. CASE i \in 1..5 /\ j - 5 \in 1..Len(q) /\ Places[j] = q[j - 5]
      BY <1>1, <2>2 DEF Spread
  <2>3. CASE j \in 1..5 /\ i - 5 \in 1..Len(q) /\ Places[i] = q[i - 5]
      BY <1>1, <2>3 DEF Spread
  <2>4. CASE /\ i - 5 \in 1..Len(q) /\ Places[i] = q[i - 5]
             /\ j - 5 \in 1..Len(q) /\ Places[j] = q[j - 5]
    <3>1. i - 5 # j - 5
        BY <1>4, <2>0
    <3> QED BY <2>4, <3>1 DEF Spread
  <2> QED BY <1>2, <2>1, <2>2, <2>3, <2>4, Zenon
<1> QED BY <1>3, <1>4 DEF RecordsAccounted

-----------------------------------------------------------------------------
(* The inductive invariant *)

SpreadInv == Spread(n, batch, writing, archived, dropped, failed, write_queue)

\* What was not handed over yet is in the batch.
CountInv == total_rows + Cardinality(batch) = n

\* What Run has in its hands at each position.
PcInv ==
    /\ pc \in {"create", "spawn", "setup", "tick", "record", "final"} => Cardinality(batch) < BatchSize
    /\ pc \in {"create", "spawn", "setup", "progress", "check", "drain", "succeed"} => batch = {}
    /\ pc = "record" => n < Total
    /\ pc = "enqueue" => Cardinality(batch) = BatchSize
    /\ pc \in {"final", "drain", "succeed"} => n = Total
    /\ pc = "succeed" => write_queue = << >>

WriterInv ==
    /\ writer # "insert" => writing = {}
    /\ pc \in {"create", "spawn"} => writer = "none"
    /\ pc = "done" => writer \in {"none", "exited"}

\* A row that says SUCCEEDED or CANCELLED was written by the last act of Run.
RowInv ==
    /\ run_row.inserted_rows <= total_rows
    /\ run_row.status \in {"SUCCEEDED", "CANCELLED"} =>
          run_row.inserted_rows = total_rows /\ pc \in DestructorPcs \cup {"done"}
    /\ run_row.status = "SUCCEEDED" => n = Total /\ batch = {} /\ write_queue = << >>

IInv == TypeOK /\ SpreadInv /\ CountInv /\ PcInv /\ WriterInv /\ RowInv

\* Each timestamp has one record per host.
LEMMA TotalType == Total \in Nat /\ Hosts \in Nat \ {0} /\ BatchSize \in Nat \ {0} /\ MaxQueueSize \in Nat
BY GeneratorAssumption DEF Total

\* In the middle of a timestamp there is a record to come.
LEMMA MoreToCome == ASSUME NEW m \in 0..Total, m % Hosts # 0 PROVE m < Total
<1> SUFFICES ASSUME m = Total PROVE FALSE
    BY TotalType
<1>1. (Ticks * Hosts) % Hosts = 0
    BY GeneratorAssumption
<1> QED BY <1>1 DEF Total

\* The batch is finite.
LEMMA BatchFinite ==
    ASSUME TypeOK
    PROVE  IsFiniteSet(batch) /\ Cardinality(batch) \in Nat /\ (batch = {} <=> Cardinality(batch) = 0)
<1>1. IsFiniteSet(Records)
    BY TotalType, FS_Interval DEF Records
<1>2. IsFiniteSet(batch)
    BY <1>1, FS_Subset, Zenon DEF TypeOK
<1> QED BY <1>2, FS_CardinalityType, FS_EmptySet, Zenon

\* What is spread over 1..n is a set of records.
LEMMA SpreadTypes ==
    ASSUME NEW N \in 0..Total, NEW B, NEW W, NEW A, NEW D, NEW F, NEW Q, Spread(N, B, W, A, D, F, Q)
    PROVE  /\ B \subseteq Records /\ W \subseteq Records /\ A \subseteq Records
           /\ D \subseteq Records /\ F \subseteq Records
BY TotalType DEF Spread, Records

\* A step that moves no record preserves the invariant if the positions allow it.
LEMMA ControlStep ==
    ASSUME IInv, UNCHANGED <<n, batch, total_rows, write_queue, writing, archived, dropped, failed>>,
           pc' \in RunPcs \cup DestructorPcs \cup {"done"}, stop_flag' \in BOOLEAN,
           writer_running' \in BOOLEAN,
           writer' \in {"none", "test", "acquire", "parked", "asleep", "insert", "exited"},
           run_row' \in [status : {"NONE", "RUNNING", "SUCCEEDED", "CANCELLED", "FAILED"},
                         inserted_rows : 0..Total],
           PcInv', WriterInv', RowInv'
    PROVE  IInv'
<1>1. TypeOK'
    BY DEF IInv, TypeOK
<1>2. SpreadInv' /\ CountInv'
    BY Zenon DEF IInv, SpreadInv, CountInv
<1> QED BY <1>1, <1>2, Zenon DEF IInv

-----------------------------------------------------------------------------
(* Preservation *)

\* The steps of Run that hand over no record preserve it.
LEMMA RunControl ==
    ASSUME IInv, CreateRun \/ StartWriter \/ Setup \/ Tick \/ CheckStop \/ Drain
    PROVE  IInv'
<1> USE TotalType DEF job, queue, thread, db, IInv
<1>1. UNCHANGED <<n, batch, total_rows, write_queue, writing, archived, dropped, failed, stop_flag>>
    BY DEF CreateRun, StartWriter, Setup, Tick, CheckStop, Drain
<1>2. pc' \in RunPcs
    BY DEF CreateRun, StartWriter, Setup, Tick, CheckStop, Drain, NextRecord, RunPcs
<1>3. writer_running' \in BOOLEAN
  <2>1. writer_running' = TRUE \/ UNCHANGED writer_running
      BY Zenon DEF CreateRun, StartWriter, Setup, Tick, CheckStop, Drain
  <2> QED BY <2>1, Zenon DEF TypeOK
<1>4. writer' \in {"none", "test", "acquire", "parked", "asleep", "insert", "exited"}
    BY Zenon DEF CreateRun, StartWriter, Setup, Tick, CheckStop, Drain, TypeOK
<1>5. /\ run_row' \in [status : {"NONE", "RUNNING", "SUCCEEDED", "CANCELLED", "FAILED"},
                       inserted_rows : 0..Total]
      /\ run_row' = run_row \/ (run_row'.inserted_rows = 0 /\ run_row'.status \in {"NONE", "RUNNING"})
    BY DEF CreateRun, StartWriter, Setup, Tick, CheckStop, Drain, TypeOK, NoRow
<1>6. PcInv'
  <2>1. CASE CreateRun \/ StartWriter \/ Setup
      BY <1>1, <2>1, Zenon DEF CreateRun, StartWriter, Setup, PcInv
  <2>2. CASE Tick
      BY <1>1, <2>2 DEF Tick, PcInv, TypeOK
  <2>3. CASE CheckStop
    <3>1. batch = {} /\ Cardinality(batch) < BatchSize
        BY <2>3, BatchFinite DEF CheckStop, PcInv
    <3>2. pc' = "cancel" \/ pc' = "tick" \/ (pc' = "record" /\ n % Hosts # 0)
        BY <2>3 DEF CheckStop, NextRecord
    <3>3. pc' = "record" => n < Total
        BY <3>2, MoreToCome, Zenon DEF TypeOK
    <3> QED BY <1>1, <3>1, <3>2, <3>3, Zenon DEF PcInv
  <2>4. CASE Drain
      BY <1>1, <2>4, Zenon DEF Drain, PcInv
  <2> QED BY <2>1, <2>2, <2>3, <2>4, Zenon
<1>7. WriterInv'
  <2>1. CASE CreateRun \/ StartWriter
      BY <1>1, <2>1, Zenon DEF CreateRun, StartWriter, WriterInv
  <2>2. CASE Setup \/ Tick \/ CheckStop \/ Drain
      BY <1>1, <2>2, Zenon DEF Setup, Tick, CheckStop, Drain, NextRecord, WriterInv
  <2> QED BY <2>1, <2>2, Zenon
<1>8. RowInv'
  <2>1. pc \in RunPcs
      BY DEF CreateRun, StartWriter, Setup, Tick, CheckStop, Drain, RunPcs
  <2>2. run_row.status \notin {"SUCCEEDED", "CANCELLED"}
      BY <2>1 DEF RowInv, RunPcs, DestructorPcs
  <2> QED BY <1>1, <1>5, <2>2 DEF RowInv, TypeOK
<1>9. pc' \in RunPcs \cup DestructorPcs \cup {"done"} /\ stop_flag' \in BOOLEAN
    BY <1>1, <1>2, Zenon DEF TypeOK
<1> QED BY <1>1, <1>3, <1>4, <1>5, <1>6, <1>7, <1>8, <1>9, ControlStep, Zenon

\* Reports of Run preserve it, whether the statement is executed or not.
LEMMA ReportStep ==
    ASSUME IInv, ReportProgress \/ ReportSucceeded \/ ReportCancelled \/ ReportFailed
    PROVE  IInv'
<1> USE TotalType DEF job, queue, thread, db, IInv
<1>1. UNCHANGED <<n, batch, total_rows, write_queue, writing, archived, dropped, failed, stop_flag,
                  writer_running, writer>>
    BY DEF ReportProgress, ReportSucceeded, ReportCancelled, ReportFailed, Report
<1>2. \/ pc = "progress" /\ pc' = "check" /\ UpdateRunStatus("RUNNING", total_rows)
      \/ pc = "succeed" /\ pc' = "destroy" /\ UpdateRunStatus("SUCCEEDED", total_rows)
      \/ pc = "cancel" /\ pc' = "destroy" /\ UpdateRunStatus("CANCELLED", total_rows)
      \/ pc = "fail" /\ pc' = "destroy" /\ UpdateRunStatus("FAILED", 0)
    BY DEF ReportProgress, ReportSucceeded, ReportCancelled, ReportFailed, Report
<1>3. run_row' \in [status : {"NONE", "RUNNING", "SUCCEEDED", "CANCELLED", "FAILED"},
                    inserted_rows : 0..Total]
    BY <1>2 DEF UpdateRunStatus, TypeOK
<1>4. PcInv' /\ WriterInv'
    BY <1>1, <1>2, Zenon DEF PcInv, WriterInv
<1>5. RowInv'
  <2>1. run_row.status \notin {"SUCCEEDED", "CANCELLED"}
      BY <1>2 DEF RowInv, DestructorPcs
  <2>2. pc = "succeed" => n = Total /\ batch = {} /\ write_queue = << >>
      BY DEF PcInv
  <2>3. total_rows \in Nat
      BY DEF TypeOK
  <2> QED BY <1>1, <1>2, <2>1, <2>2, <2>3 DEF RowInv, UpdateRunStatus, DestructorPcs
<1>6. pc' \in RunPcs \cup DestructorPcs \cup {"done"}
    BY <1>2, Zenon DEF RunPcs, DestructorPcs
<1> QED BY <1>1, <1>3, <1>4, <1>5, <1>6, ControlStep, Zenon DEF TypeOK

\* The steps of the destructor, of the writer without a batch, and of others preserve it.
LEMMA OtherControl ==
    ASSUME IInv, \/ Destroy \/ NotifyAll \/ Join
                 \/ WriterTest \/ WriterPark \/ WriterBlock \/ WriterBreak \/ SpuriousWakeup
                 \/ RequestStop \/ ReconcileStaleJobs \/ UNCHANGED vars
    PROVE  IInv'
<1> USE TotalType DEF job, queue, thread, db, IInv, vars
<1> USE DEF Destroy, NotifyAll, Join, WriterTest, WriterPark, WriterBlock, WriterBreak,
            SpuriousWakeup, RequestStop, ReconcileStaleJobs
<1>1. UNCHANGED <<n, batch, total_rows, write_queue, writing, archived, dropped, failed>>
    BY Zenon
<1>2. /\ writer \in {"none", "exited"} => writer' = writer
      /\ \/ pc' = pc
         \/ pc = "destroy" /\ pc' = "notify"
         \/ pc = "notify" /\ pc' = "join"
         \/ pc = "join" /\ pc' = "done" /\ writer \in {"none", "exited"}
    BY Zenon
<1>3. /\ writer' \in {"none", "test", "acquire", "parked", "asleep", "insert", "exited"}
      /\ writer' = writer \/ (writer # "insert" /\ writer' # "insert")
    BY DEF TypeOK
<1>4. stop_flag' \in BOOLEAN /\ writer_running' \in BOOLEAN
  <2>1. stop_flag' = TRUE \/ stop_flag' = stop_flag
      BY Zenon
  <2>2. writer_running' = FALSE \/ writer_running' = writer_running
      BY Zenon
  <2> QED BY <2>1, <2>2, Zenon DEF TypeOK
<1>5. /\ run_row' \in [status : {"NONE", "RUNNING", "SUCCEEDED", "CANCELLED", "FAILED"},
                       inserted_rows : 0..Total]
      /\ \/ run_row' = run_row
         \/ run_row'.status = "FAILED" /\ run_row'.inserted_rows = run_row.inserted_rows
    BY Zenon DEF TypeOK
<1>6. PcInv' BY <1>1, <1>2, Zenon DEF PcInv
<1>7. WriterInv' BY <1>1, <1>2, <1>3, Zenon DEF WriterInv
<1>8. RowInv' BY <1>1, <1>2, <1>5, Zenon DEF RowInv, DestructorPcs
<1>9. pc' \in RunPcs \cup DestructorPcs \cup {"done"}
    BY <1>2 DEF TypeOK, DestructorPcs
<1> QED BY <1>1, <1>3, <1>4, <1>5, <1>6, <1>7, <1>8, <1>9, ControlStep, Zenon

\* A new record goes into the batch, which becomes full or not.
LEMMA GenerateStep == ASSUME IInv, GenerateRecord PROVE IInv'
<1> USE TotalType DEF job, queue, thread, db, IInv
<1>1. /\ n' = n + 1 /\ batch' = batch \cup {n + 1} /\ n < Total /\ Cardinality(batch) < BatchSize
      /\ UNCHANGED <<total_rows, write_queue, writing, archived, dropped, failed, stop_flag,
                     writer_running, writer, run_row>>
      /\ pc = "record" /\ n \in Nat
    BY DEF GenerateRecord, PcInv, TypeOK
<1>2. SpreadInv'
    BY <1>1, SpreadGenerate, Zenon DEF SpreadInv
<1>3. Cardinality(batch') = Cardinality(batch) + 1 /\ Cardinality(batch) \in Nat
  <2>1. n + 1 \notin batch
      BY <1>1 DEF SpreadInv, Spread
  <2> QED BY <1>1, <2>1, BatchFinite, FS_AddElement, Zenon
<1>4. /\ pc' \in {"enqueue", "tick", "record"}
      /\ pc' = "enqueue" => Cardinality(batch') = BatchSize
      /\ pc' # "enqueue" => Cardinality(batch') < BatchSize
      /\ pc' = "record" => n' % Hosts # 0
    BY <1>1, <1>3 DEF GenerateRecord, NextRecord
<1>5. pc' = "record" => n' < Total
    BY <1>1, <1>4, MoreToCome
<1>6. TypeOK'
  <2>1. batch' \subseteq Records /\ n' \in 0..Total
      BY <1>1 DEF TypeOK, Records
  <2>2. Cardinality(batch') <= BatchSize
      BY <1>1, <1>3
  <2>3. pc' \in RunPcs
      BY <1>4, Zenon DEF RunPcs
  <2> QED BY <1>1, <2>1, <2>2, <2>3, Zenon DEF TypeOK
<1>7. CountInv'
    BY <1>1, <1>3 DEF CountInv, TypeOK
<1>8. PcInv'
    BY <1>4, <1>5, Zenon DEF PcInv
<1>9. WriterInv' /\ RowInv'
    BY <1>1, <1>4, Zenon DEF WriterInv, RowInv, DestructorPcs
<1> QED BY <1>2, <1>6, <1>7, <1>8, <1>9, Zenon

\* A batch that is handed over is in the queue or dropped, and counted in both cases.
LEMMA EnqueueStep == ASSUME IInv, EnqueueFullBatch \/ EnqueueFinalBatch PROVE IInv'
<1> USE TotalType DEF job, queue, thread, db, IInv
<1>1. CASE batch = {} /\ EnqueueFinalBatch /\ UNCHANGED <<batch, total_rows, queue, thread, dropped>>
  <2>1. /\ UNCHANGED <<n, batch, total_rows, write_queue, writing, archived, dropped, failed,
                       stop_flag, writer_running, writer, run_row>>
        /\ pc = "final" /\ pc' = "drain"
      BY <1>1, Zenon DEF EnqueueFinalBatch
  <2>2. PcInv' /\ WriterInv' /\ RowInv'
      BY <1>1, <2>1, Zenon DEF PcInv, WriterInv, RowInv, DestructorPcs
  <2>3. pc' \in RunPcs
      BY <2>1, Zenon DEF RunPcs
  <2> QED BY <2>1, <2>2, <2>3, ControlStep, Zenon DEF TypeOK
<1>2. CASE /\ EnqueueBatch(batch) /\ batch' = {} /\ total_rows' = total_rows + Cardinality(batch)
           /\ pc \in {"enqueue", "final"} /\ pc' = IF pc = "enqueue" THEN "progress" ELSE "drain"
           /\ UNCHANGED <<n, stop_flag, db>>
  <2>1. Cardinality(batch) \in Nat /\ Cardinality(batch') = 0 /\ n \in Nat /\ total_rows \in Nat
      BY <1>2, BatchFinite, FS_EmptySet DEF TypeOK
  <2>2. total_rows' = n /\ n' = n
      BY <1>2, <2>1, Zenon DEF CountInv
  <2>3. CountInv'
      BY <2>1, <2>2 DEF CountInv
  <2>4. /\ UNCHANGED <<writing, archived, failed, stop_flag, writer_running, run_row>>
        /\ writer' \in {"none", "test", "acquire", "parked", "asleep", "insert", "exited"}
        /\ writer' = "insert" <=> writer = "insert"
      BY <1>2, Zenon DEF EnqueueBatch, TypeOK
  <2>5. /\ SpreadInv' /\ write_queue' \in Seq(SUBSET Records) /\ Len(write_queue') <= MaxQueueSize
        /\ dropped' \subseteq Records
    <3>1. batch \in SUBSET Records /\ write_queue \in Seq(SUBSET Records) /\ dropped \subseteq Records
          /\ Len(write_queue) \in Nat /\ Len(write_queue) <= MaxQueueSize
        BY DEF TypeOK
    <3>2. CASE dropped' = dropped \cup batch /\ UNCHANGED write_queue
        BY <1>2, <2>1, <2>2, <2>4, <3>1, <3>2, SpreadDrop, Zenon DEF SpreadInv
    <3>3. CASE /\ Len(write_queue) < MaxQueueSize /\ write_queue' = Append(write_queue, batch)
               /\ UNCHANGED dropped
      <4>1. Spread(n, {}, writing, archived, dropped, failed, Append(write_queue, batch))
          BY <2>1, <3>1, SpreadAppend, Zenon DEF SpreadInv
      <4>2. SpreadInv'
          BY <1>2, <2>2, <2>4, <3>3, <4>1, Zenon DEF SpreadInv
      <4> QED BY <3>1, <3>3, <4>2
    <3> QED BY <1>2, <3>2, <3>3, Zenon DEF EnqueueBatch
  <2>6. TypeOK'
    <3>1. pc' \in RunPcs
        BY <1>2, Zenon DEF RunPcs
    <3>2. total_rows' \in 0..Total /\ n' \in 0..Total
        BY <2>2, Zenon DEF TypeOK
    <3>3. batch' \subseteq Records /\ Cardinality(batch') <= BatchSize
        BY <1>2, <2>1
    <3> QED BY <2>4, <2>5, <3>1, <3>2, <3>3, Zenon DEF TypeOK
  <2>7. PcInv'
      BY <1>2, <2>1, <2>2, Zenon DEF PcInv
  <2>8. WriterInv'
      BY <1>2, <2>4, Zenon DEF WriterInv
  <2>9. RowInv'
    <3>1. run_row.status \notin {"SUCCEEDED", "CANCELLED"}
        BY <1>2, Zenon DEF RowInv, DestructorPcs
    <3>2. total_rows <= total_rows' /\ run_row.inserted_rows \in Nat
        BY <1>2, <2>1 DEF TypeOK
    <3> QED BY <2>1, <2>2, <2>4, <3>1, <3>2 DEF RowInv
  <2> QED BY <2>3, <2>5, <2>6, <2>7, <2>8, <2>9, Zenon
<1>3. CASE EnqueueFullBatch
  <2>1. Cardinality(batch) = BatchSize
      BY <1>3, Zenon DEF EnqueueFullBatch, PcInv
  <2> QED BY <1>2, <1>3, <2>1, Zenon DEF EnqueueFullBatch
<1>4. CASE EnqueueFinalBatch
    BY <1>1, <1>2, <1>4, Zenon DEF EnqueueFinalBatch
<1> QED BY <1>3, <1>4, Zenon

\* The writer takes the first batch of the queue and inserts it or fails to.
LEMMA WriterStep == ASSUME IInv, WriterPop \/ WriterInsert PROVE IInv'
<1> USE TotalType DEF job, queue, thread, db, IInv
<1>0. n \in Nat /\ n \in 0..Total /\ write_queue \in Seq(SUBSET Records)
    BY DEF TypeOK
<1>1. /\ UNCHANGED <<pc, n, batch, total_rows, stop_flag, writer_running, dropped, run_row>>
      /\ pc # "done"
      /\ pc \notin {"create", "spawn"}
    BY DEF WriterPop, WriterInsert, WriterInv
<1>2. CountInv'
    BY <1>1 DEF CountInv
<1>3. CASE WriterPop
  <2>1. /\ writing = {} /\ write_queue # << >> /\ writer' = "insert"
        /\ writing' = Head(write_queue) /\ write_queue' = Tail(write_queue)
        /\ UNCHANGED <<archived, failed>>
      BY <1>3, Zenon DEF WriterPop, WriterInv
  <2>2. SpreadInv'
    <3>1. Spread(n, batch, Head(write_queue), archived, dropped, failed, Tail(write_queue))
        BY <1>0, <2>1, SpreadPop, Zenon DEF SpreadInv
    <3> QED BY <1>1, <2>1, <3>1, Zenon DEF SpreadInv
  <2>3. TypeOK'
    <3>1. /\ Head(write_queue) \in SUBSET Records /\ Tail(write_queue) \in Seq(SUBSET Records)
          /\ Len(Tail(write_queue)) = Len(write_queue) - 1 /\ Len(write_queue) \in Nat
        BY <1>0, <2>1
    <3>2. Len(write_queue') <= MaxQueueSize
        BY <2>1, <3>1 DEF TypeOK
    <3> QED BY <1>1, <2>1, <3>1, <3>2, Zenon DEF TypeOK
  <2>4. PcInv' /\ WriterInv' /\ RowInv'
      BY <1>1, <2>1, Zenon DEF PcInv, WriterInv, RowInv
  <2> QED BY <1>2, <2>2, <2>3, <2>4, Zenon
<1>4. CASE WriterInsert
  <2>1. /\ writing' = {} /\ writer' = "test" /\ UNCHANGED write_queue
        /\ \/ archived' = archived \cup writing /\ UNCHANGED failed
           \/ failed' = failed \cup writing /\ UNCHANGED archived
      BY <1>4 DEF WriterInsert
  <2>2. SpreadInv'
    <3>1. /\ Spread(n, batch, {}, archived \cup writing, dropped, failed, write_queue)
          /\ Spread(n, batch, {}, archived, dropped, failed \cup writing, write_queue)
        BY <1>0, SpreadInsert, Zenon DEF SpreadInv
    <3> QED BY <1>1, <2>1, <3>1, Zenon DEF SpreadInv
  <2>3. TypeOK'
      BY <1>1, <2>1, Zenon DEF TypeOK
  <2>4. PcInv' /\ WriterInv' /\ RowInv'
      BY <1>1, <2>1, Zenon DEF PcInv, WriterInv, RowInv
  <2> QED BY <1>2, <2>2, <2>3, <2>4
<1> QED BY <1>3, <1>4

\* A crash loses the queue and keeps the rest in place.
LEMMA CrashStep == ASSUME IInv, Crash PROVE IInv'
<1> USE TotalType DEF job, queue, thread, db, IInv
<1>0. n \in Nat /\ n \in 0..Total /\ write_queue \in Seq(SUBSET Records)
    BY DEF TypeOK
<1>1. /\ pc' = "done" /\ writer' = "exited" /\ writing' = {} /\ write_queue' = << >>
      /\ dropped' = dropped \cup UNION Range(write_queue)
      /\ \/ archived' = archived \cup writing /\ UNCHANGED failed
         \/ failed' = failed \cup writing /\ UNCHANGED archived
      /\ UNCHANGED <<n, batch, total_rows, stop_flag, writer_running, run_row>>
    BY DEF Crash
<1>2. Spread(n, batch, {}, archived', dropped, failed', write_queue)
  <2>1. /\ Spread(n, batch, {}, archived \cup writing, dropped, failed, write_queue)
        /\ Spread(n, batch, {}, archived, dropped, failed \cup writing, write_queue)
      BY <1>0, SpreadInsert, Zenon DEF SpreadInv
  <2> QED BY <1>1, <2>1, Zenon
<1>3. Spread(n, batch, {}, archived', dropped', failed', << >>)
  <2>1. Spread(n, batch, {}, archived', dropped \cup UNION Range(write_queue), failed', << >>)
      BY <1>0, <1>2, SpreadLose, Zenon
  <2> QED BY <1>1, <2>1, Zenon
<1>4. SpreadInv' /\ CountInv'
    BY <1>1, <1>3, Zenon DEF SpreadInv, CountInv
<1>5. TypeOK'
  <2>1. archived' \subseteq Records /\ dropped' \subseteq Records /\ failed' \subseteq Records
      BY <1>0, <1>3, SpreadTypes, Zenon
  <2>2. write_queue' \in Seq(SUBSET Records) /\ Len(write_queue') <= MaxQueueSize
      BY <1>1
  <2> QED BY <1>1, <2>1, <2>2, Zenon DEF TypeOK
<1>6. PcInv' /\ WriterInv' /\ RowInv'
    BY <1>1 DEF PcInv, WriterInv, RowInv
<1> QED BY <1>4, <1>5, <1>6, Zenon

\* Cardinalities of disjoint sets add up.
LEMMA DisjointUnion ==
    ASSUME NEW S, NEW T, IsFiniteSet(S), IsFiniteSet(T), S \cap T = {}
    PROVE  IsFiniteSet(S \cup T) /\ Cardinality(S \cup T) = Cardinality(S) + Cardinality(T)
<1> DEFINE u == Cardinality(S \cup T)
           i == Cardinality(S \cap T)
<1>1. IsFiniteSet(S \cup T) /\ u = Cardinality(S) + Cardinality(T) - i
    BY FS_Union, Zenon
<1>2. i = 0
    BY FS_EmptySet, Zenon
<1>3. Cardinality(S) \in Nat /\ Cardinality(T) \in Nat
    BY FS_CardinalityType, Zenon
<1> HIDE DEF u, i
<1>4. u = Cardinality(S) + Cardinality(T)
    BY <1>1, <1>2, <1>3
<1> QED BY <1>1, <1>4, Zenon DEF u

\* The invariant holds of every behaviour.
THEOREM Invariance == Spec => []IInv
<1>1. Init => IInv
  <2> SUFFICES ASSUME Init PROVE IInv
      BY Zenon
  <2> USE TotalType DEF Init
  <2>1. Cardinality(batch) = 0
      BY FS_EmptySet, Zenon
  <2>2. TypeOK
    <3>1. pc \in RunPcs
        BY DEF RunPcs
    <3>2. stop_flag \in BOOLEAN /\ writer_running \in BOOLEAN
        BY Zenon
    <3>3. write_queue \in Seq(SUBSET Records) /\ Len(write_queue) <= MaxQueueSize
        OBVIOUS
    <3> QED BY <2>1, <3>1, <3>2, <3>3 DEF TypeOK, NoRow
  <2>3. SpreadInv
      BY DEF SpreadInv, Spread
  <2>4. CountInv /\ PcInv /\ WriterInv /\ RowInv
      BY <2>1 DEF CountInv, PcInv, WriterInv, RowInv, NoRow
  <2> QED BY <2>2, <2>3, <2>4, Zenon DEF IInv
<1>2. IInv /\ [Next]_vars => IInv'
    BY RunControl, ReportStep, OtherControl, GenerateStep, EnqueueStep, WriterStep, CrashStep, Zenon
    DEF Next, Run, Destructor, WriterLoop, Finished
<1> QED BY <1>1, <1>2, PTL DEF Spec

\* No interleaving of EnqueueBatch, WriterLoop, the destructor and a crash loses a record
\* or has it twice.
THEOREM RecordsAreAccounted == Spec => []RecordsAccounted
<1>1. IInv => RecordsAccounted
    BY SpreadAccounts, Zenon DEF IInv, TypeOK, SpreadInv
<1> QED BY <1>1, Invariance, PTL

\* The rows that the run reports are the rows that were handed over, and, when all is
\* over, those in the table and those lost with a batch.
THEOREM ReportedRowsHold == Spec => []RunRowInv
<1>1. ASSUME IInv PROVE Cardinality((1..n) \ batch) = total_rows
  <2>1. IsFiniteSet(1..n) /\ Cardinality(1..n) = n /\ n \in Nat /\ total_rows \in Nat
    <3>1. n \in Nat /\ total_rows \in Nat
        BY <1>1, TotalType DEF IInv, TypeOK
    <3>2. IsFiniteSet(1..n) /\ Cardinality(1..n) = n
        BY <3>1, FS_Interval
    <3> QED BY <3>1, <3>2, Zenon
  <2> DEFINE handed == (1..n) \ batch
  <2>2. handed \cap batch = {} /\ handed \cup batch = 1..n
      BY <1>1, Zenon DEF IInv, SpreadInv, Spread
  <2>3. IsFiniteSet(handed) /\ IsFiniteSet(batch)
      BY <1>1, <2>1, FS_Difference, BatchFinite, Zenon DEF IInv
  <2> HIDE DEF handed
  <2>4. Cardinality(handed \cup batch) = Cardinality(handed) + Cardinality(batch)
      BY <2>2, <2>3, DisjointUnion, Zenon
  <2>5. Cardinality(handed \cup batch) = n
      BY <2>1, <2>2, Zenon
  <2>6. /\ Cardinality(batch) \in Nat /\ total_rows + Cardinality(batch) = n
        /\ Cardinality(handed) \in Nat
      BY <1>1, <2>3, FS_CardinalityType, Zenon DEF IInv, CountInv
  <2>7. Cardinality(handed) = total_rows
      BY <2>1, <2>4, <2>5, <2>6
  <2> QED BY <2>7, Zenon DEF handed
<1>2. IInv => ReportedRowsAddUp
    BY <1>1 DEF IInv, RowInv, ReportedRowsAddUp
<1>3. ASSUME IInv, pc = "done", run_row.status = "SUCCEEDED"
      PROVE  /\ write_queue = << >> /\ run_row.inserted_rows = Total
             /\ Total = Cardinality(archived) + Cardinality(dropped) + Cardinality(failed)
  <2>1. n = Total /\ batch = {} /\ writing = {} /\ write_queue = << >> /\ run_row.inserted_rows = total_rows
      BY <1>3 DEF IInv, RowInv, WriterInv
  <2>2. IsFiniteSet(Records) /\ Cardinality(Records) = Total
      BY TotalType, FS_Interval DEF Records
  <2>3. /\ archived \cap dropped = {} /\ (archived \cup dropped) \cap failed = {}
        /\ Records = (archived \cup dropped) \cup failed
    <3>1. Spread(Total, {}, {}, archived, dropped, failed, << >>)
        BY <1>3, <2>1, Zenon DEF IInv, SpreadInv
    <3>2. 1..Len(<< >>) = {}
        OBVIOUS
    <3> QED BY <3>1, <3>2, Zenon DEF Spread, Records
  <2>4. IsFiniteSet(archived) /\ IsFiniteSet(dropped) /\ IsFiniteSet(failed)
      BY <2>2, <2>3, FS_Subset, Zenon
  <2>5. /\ IsFiniteSet(archived \cup dropped)
        /\ Cardinality(archived \cup dropped) = Cardinality(archived) + Cardinality(dropped)
      BY <2>3, <2>4, DisjointUnion, Zenon
  <2>6. Cardinality((archived \cup dropped) \cup failed) = Cardinality(archived \cup dropped) + Cardinality(failed)
      BY <2>3, <2>4, <2>5, DisjointUnion, Zenon
  <2>7. total_rows = Total
    <3>1. (1..n) \ batch = Records
        BY <2>1 DEF Records
    <3> QED BY <1>1, <1>3, <2>2, <3>1, Zenon
  <2> QED BY <2>1, <2>2, <2>3, <2>5, <2>6, <2>7, Zenon
<1>4. IInv => SucceededRowsAddUp
    BY <1>3 DEF SucceededRowsAddUp
<1>5. IInv => RunRowInv
    BY <1>2, <1>4 DEF RunRowInv, IInv
<1> QED BY <1>5, Invariance, PTL

-----------------------------------------------------------------------------
(* PcaModelCache: the footprint *)

Footprint == Bytes(DOMAIN cache_)

\* Only finitely many entries are ever made.
EntriesInv == CacheInv /\ IsFiniteSet(DOMAIN cache_)

\* The bytes of some entries and of the others make up the footprint.
LEMMA BytesSplit ==
    ASSUME EntriesInv, NEW V \in SUBSET DOMAIN cache_
    PROVE  /\ IsFiniteSet(V) /\ IsFiniteSet(DOMAIN cache_ \ V)
           /\ Bytes(V) \in Nat /\ Bytes(DOMAIN cache_ \ V) \in Nat
           /\ Footprint = Bytes(V) + Bytes(DOMAIN cache_ \ V)
           /\ Footprint \in Nat
<1> DEFINE D == DOMAIN cache_
           mem == [m \in D |-> cache_[m].memory_usage]
<1>1. \A m \in D : mem[m] \in Nat
    BY DEF EntriesInv, CacheInv, CacheTypeOK, Entry
<1>2. IsFiniteSet(D) /\ IsFiniteSet(V) /\ IsFiniteSet(D \ V)
    BY FS_Subset DEF EntriesInv
<1>3. /\ SumFunctionOnSet(mem, V) \in Nat /\ SumFunctionOnSet(mem, D \ V) \in Nat
      /\ SumFunctionOnSet(mem, D) \in Nat
    BY <1>1, <1>2, SumType
<1>4. SumFunctionOnSet(mem, D) = SumFunctionOnSet(mem, V) + SumFunctionOnSet(mem, D \ V)
    BY <1>1, <1>2, SumSplit
<1> QED BY <1>2, <1>3, <1>4, Zenon DEF Bytes, Footprint

\* Entries that stay as they are use what they used.
LEMMA BytesKept ==
    ASSUME EntriesInv, NEW K \in SUBSET DOMAIN cache_, K \subseteq DOMAIN cache_',
           \A m \in K : cache_'[m].memory_usage = cache_[m].memory_usage
    PROVE  SumFunctionOnSet([m \in DOMAIN cache_' |-> cache_'[m].memory_usage], K) = Bytes(K)
<1> DEFINE f == [m \in DOMAIN cache_' |-> cache_'[m].memory_usage]
           g == [m \in DOMAIN cache_ |-> cache_[m].memory_usage]
<1>1. \A m \in K : f[m] = g[m]
    OBVIOUS
<1>2. IsFiniteSet(K)
    BY FS_Subset DEF EntriesInv
<1> HIDE DEF f, g
<1>3. SumFunctionOnSet(f, K) = SumFunctionOnSet(g, K)
    BY <1>1, <1>2, SumSame
<1> QED BY <1>3, Zenon DEF f, g, Bytes

\* Entries V leave the cache and the counter, or none does and some are only touched.
LEMMA DropStep ==
    ASSUME EntriesInv, NEW V \in SUBSET DOMAIN cache_,
           DOMAIN cache_' = DOMAIN cache_ \ V,
           \A m \in DOMAIN cache_' : cache_'[m].memory_usage = cache_[m].memory_usage,
           current_bytes_' = current_bytes_ - Bytes(V), CacheTypeOK'
    PROVE  EntriesInv' /\ Drift' = Drift
<1> DEFINE D == DOMAIN cache_
<1>1. Footprint' = Bytes(D \ V)
  <2>1. SumFunctionOnSet([m \in DOMAIN cache_' |-> cache_'[m].memory_usage], D \ V) = Bytes(D \ V)
      BY BytesKept, Zenon
  <2> QED BY <2>1, Zenon DEF Footprint, Bytes
<1>2. /\ Footprint = Bytes(V) + Bytes(D \ V) /\ Bytes(V) \in Nat /\ Bytes(D \ V) \in Nat
      /\ Footprint \in Nat
    BY BytesSplit
<1>3. /\ current_bytes_ \in Nat /\ current_bytes_ >= Footprint /\ Footprint <= MaxBytes
      /\ Cardinality(D) <= MaxEntries
    BY DEF EntriesInv, CacheInv, CacheTypeOK, WithinLimits, NeverUndercounts, Footprint
<1>4. current_bytes_' >= Footprint' /\ Footprint' <= MaxBytes
    BY <1>1, <1>2, <1>3, CacheAssumption
<1>5. current_bytes_' - Footprint' = current_bytes_ - Footprint
    BY <1>1, <1>2, <1>3
<1>6. IsFiniteSet(D \ V) /\ Cardinality(D \ V) <= MaxEntries
  <2>1. /\ IsFiniteSet(D) /\ IsFiniteSet(D \ V) /\ Cardinality(D \ V) <= Cardinality(D)
        /\ Cardinality(D) \in Nat /\ Cardinality(D \ V) \in Nat
      BY FS_Subset, FS_CardinalityType DEF EntriesInv
  <2> QED BY <1>3, <2>1, CacheAssumption
<1>7. IsFiniteSet(DOMAIN cache_') /\ Cardinality(DOMAIN cache_') <= MaxEntries
    BY <1>6, Zenon
<1>8. EntriesInv'
    BY <1>4, <1>7 DEF EntriesInv, CacheInv, WithinLimits, NeverUndercounts, Footprint
<1> QED BY <1>5, <1>8 DEF Drift, Footprint

\* What GetOrCreate evicts makes room for the new entry, in bytes and in entries.
LEMMA VictimsMakeRoom ==
    ASSUME EntriesInv, NEW usage \in Nat, usage <= MaxBytes, NEW V \in Victims(usage)
    PROVE  /\ V \in SUBSET DOMAIN cache_
           /\ Bytes(DOMAIN cache_ \ V) + usage <= MaxBytes
           /\ Cardinality(DOMAIN cache_ \ V) < MaxEntries
<1> DEFINE D == DOMAIN cache_
<1>1. V \in SUBSET D
    BY DEF Victims
<1>2. PICK W \in SUBSET V :
          /\ EnsureCapacity(W, usage)
          /\ Cardinality(V \ W) = IF Cardinality(D \ W) >= MaxEntries THEN 1 ELSE 0
    BY DEF Victims
<1>3. /\ current_bytes_ \in Nat /\ current_bytes_ >= Footprint /\ Cardinality(D) <= MaxEntries
      /\ MaxEntries \in Nat \ {0} /\ MaxBytes \in Nat
    BY CacheAssumption DEF EntriesInv, CacheInv, CacheTypeOK, WithinLimits, NeverUndercounts, Footprint
<1>4. Bytes(D \ V) + usage <= MaxBytes
  <2>1. W \in SUBSET D
      BY <1>1
  <2>2. /\ Footprint = Bytes(W) + Bytes(D \ W) /\ Footprint = Bytes(V) + Bytes(D \ V)
        /\ Bytes(W) \in Nat /\ Bytes(D \ W) \in Nat /\ Bytes(V) \in Nat /\ Bytes(D \ V) \in Nat
      BY <1>1, <2>1, BytesSplit
  <2>3. CASE W = D
    <3>1. V = D /\ D \ V = {}
        BY <1>1, <2>3
    <3>2. Bytes({}) = 0
        BY SumEmpty DEF Bytes
    <3>3. Bytes(D \ V) = 0
        BY <3>1, <3>2, Zenon
    <3> QED BY <1>3, <3>3
  <2>4. CASE ~(current_bytes_ - Bytes(W) + usage > MaxBytes)
    <3>1. Bytes(D \ V) <= Bytes(D \ W)
      <4> DEFINE mem == [m \in D |-> cache_[m].memory_usage]
      <4>1. \A m \in D \ W : mem[m] \in Nat
          BY DEF EntriesInv, CacheInv, CacheTypeOK, Entry
      <4>2. IsFiniteSet(D \ W) /\ D \ V \in SUBSET (D \ W)
          BY <2>1, BytesSplit, Zenon
      <4>3. SumFunctionOnSet(mem, D \ W)
              = SumFunctionOnSet(mem, D \ V) + SumFunctionOnSet(mem, (D \ W) \ (D \ V))
          BY <4>1, <4>2, SumSplit
      <4>4. SumFunctionOnSet(mem, (D \ W) \ (D \ V)) \in Nat
        <5>1. IsFiniteSet((D \ W) \ (D \ V))
            BY <4>2, FS_Subset
        <5> QED BY <4>1, <5>1, SumType
      <4>5. Bytes(D \ W) = Bytes(D \ V) + SumFunctionOnSet(mem, (D \ W) \ (D \ V))
          BY <4>3, Zenon DEF Bytes
      <4> QED BY <2>2, <4>4, <4>5
    <3> QED BY <1>3, <2>2, <2>4, <3>1
  <2> QED BY <1>2, <2>3, <2>4 DEF EnsureCapacity
<1>5. Cardinality(D \ V) < MaxEntries
  <2> DEFINE left == D \ W
             more == V \ W
  <2>1. /\ IsFiniteSet(left) /\ Cardinality(left) \in Nat /\ Cardinality(left) <= Cardinality(D)
        /\ Cardinality(D) \in Nat
      BY FS_Subset, FS_CardinalityType DEF EntriesInv
  <2>2. left \cap more = more /\ left \ more = D \ V
      BY <1>1, <1>2
  <2>3. Cardinality(left \ more) = Cardinality(left) - Cardinality(left \cap more)
      BY <2>1, FS_Difference, Zenon
  <2>4. Cardinality(D \ V) = Cardinality(left) - Cardinality(more)
      BY <2>2, <2>3, Zenon
  <2>5. Cardinality(more) = IF Cardinality(left) >= MaxEntries THEN 1 ELSE 0
      BY <1>2
  <2> HIDE DEF left, more
  <2> QED BY <1>3, <2>1, <2>4, <2>5
<1> QED BY <1>1, <1>4, <1>5

-----------------------------------------------------------------------------
(* Preservation *)

\* An insertion by c replaced an entry, whose bytes stay in the counter.
Overwrites(c) ==
    /\ call[c] # Idle /\ call'[c] = Idle
    /\ call[c].model \in DOMAIN cache_
    /\ Drift' = Drift + cache_[call[c].model].memory_usage

\* A call that is over is idle, whatever it did.
LEMMA CallEnds ==
    ASSUME CacheTypeOK, NEW c \in Callers, call[c] # Idle, call' = [call EXCEPT ![c] = Idle]
    PROVE  /\ call' \in [Callers -> {Idle} \cup [model : Models, path : Paths, at : 0..MaxTime]]
           /\ call'[c] = Idle
           /\ call[c].model \in Models /\ call[c].path \in Paths /\ call[c].at \in 0..MaxTime
<1>1. call[c] \in [model : Models, path : Paths, at : 0..MaxTime]
    BY DEF CacheTypeOK
<1> QED BY <1>1 DEF CacheTypeOK

\* A new entry: the footprint grows by its usage and shrinks by the entry it replaces.
LEMMA CacheInsertStep ==
    ASSUME EntriesInv, NEW c \in Callers, Insert(c)
    PROVE  EntriesInv' /\ (Drift' = Drift \/ Overwrites(c))
<1> DEFINE D == DOMAIN cache_
           m == call[c].model
           usage == Usage[call[c].path]
           entry == [last_access |-> call[c].at, artifact_path |-> call[c].path,
                     memory_usage |-> usage]
<1>1. CacheTypeOK /\ current_bytes_ \in Nat /\ current_bytes_ >= Footprint /\ MaxBytes \in Nat
      /\ MaxEntries \in Nat
    BY CacheAssumption DEF EntriesInv, CacheInv, CacheTypeOK, NeverUndercounts, Footprint
<1>2. /\ call' \in [Callers -> {Idle} \cup [model : Models, path : Paths, at : 0..MaxTime]]
      /\ call[c] # Idle /\ call'[c] = Idle /\ m \in Models /\ entry \in Entry /\ usage \in Nat
      /\ now' = now
  <2>1. call[c] # Idle /\ call' = [call EXCEPT ![c] = Idle] /\ now' = now
      BY DEF Insert
  <2> QED BY <1>1, <2>1, CallEnds, CacheAssumption, Zenon DEF Entry
<1>3. CASE usage > MaxBytes
  <2>1. UNCHANGED <<cache_, current_bytes_>>
      BY <1>3 DEF Insert
  <2>2. CacheTypeOK'
      BY <1>1, <1>2, <2>1 DEF CacheTypeOK
  <2>3. EntriesInv' /\ Drift' = Drift
      BY <2>1, <2>2 DEF EntriesInv, CacheInv, WithinLimits, NeverUndercounts, Drift, Bytes
  <2> QED BY <2>3
<1>4. CASE usage <= MaxBytes
  <2>1. PICK V \in Victims(usage) :
            /\ cache_' = [k \in (D \ V) \cup {m} |-> IF k = m THEN entry ELSE cache_[k]]
            /\ current_bytes_' = current_bytes_ - Bytes(V) + usage
    <3>1. ~(usage > MaxBytes)
        BY <1>1, <1>2, <1>4
    <3> HIDE DEF usage, m, entry
    <3> QED BY <3>1, Zenon DEF Insert, usage, m, entry
  <2> DEFINE K == (D \ V) \ {m}
             f == [k \in DOMAIN cache_' |-> cache_'[k].memory_usage]
  <2>2. /\ V \in SUBSET D /\ Bytes(D \ V) + usage <= MaxBytes /\ Cardinality(D \ V) < MaxEntries
      BY <1>2, <1>4, VictimsMakeRoom, Zenon
  <2>3. /\ DOMAIN cache_' = (D \ V) \cup {m} /\ m \in DOMAIN cache_' /\ DOMAIN cache_' \ {m} = K
        /\ cache_'[m] = entry /\ \A k \in K : cache_'[k] = cache_[k]
        /\ K \in SUBSET D /\ K \subseteq DOMAIN cache_'
      BY <2>1
  <2>4. \A k \in DOMAIN cache_' : cache_'[k] \in Entry
    <3>1. \A k \in D : cache_[k] \in Entry
        BY <1>1 DEF CacheTypeOK
    <3> QED BY <1>2, <2>1, <3>1
  <2>5. IsFiniteSet(DOMAIN cache_') /\ Cardinality(DOMAIN cache_') <= MaxEntries
    <3>1. IsFiniteSet(D \ V) /\ Cardinality(D \ V) \in Nat
        BY <2>2, BytesSplit, FS_CardinalityType
    <3>2. /\ IsFiniteSet((D \ V) \cup {m})
          /\ \/ Cardinality((D \ V) \cup {m}) = Cardinality(D \ V)
             \/ Cardinality((D \ V) \cup {m}) = Cardinality(D \ V) + 1
        BY <3>1, FS_AddElement, Zenon
    <3>3. \A y, x \in Nat : y < MaxEntries /\ (x = y \/ x = y + 1) => x <= MaxEntries
        BY CacheAssumption
    <3>4. Cardinality((D \ V) \cup {m}) \in Nat
        BY <3>2, FS_CardinalityType, Zenon
    <3> QED BY <2>2, <2>3, <3>1, <3>2, <3>3, <3>4, Zenon
  <2>6. Footprint' = usage + Bytes(K)
    <3>1. SumFunctionOnSet(f, K) = Bytes(K)
        BY <2>3, BytesKept
    <3>2. \A k \in DOMAIN cache_' : f[k] \in Nat
        BY <2>4 DEF Entry
    <3>3. f[m] = usage
      <4>1. entry.memory_usage = usage
          OBVIOUS
      <4>2. m \in DOMAIN cache_' /\ cache_'[m] = entry
          BY <2>3, Zenon
      <4> HIDE DEF entry, m, usage
      <4> QED BY <4>1, <4>2
    <3>4. SumFunctionOnSet(f, DOMAIN cache_') = f[m] + SumFunctionOnSet(f, DOMAIN cache_' \ {m})
      <4> DEFINE E == DOMAIN cache_'
      <4>1. IsFiniteSet(E) /\ m \in E /\ \A k \in E : f[k] \in Nat
          BY <2>3, <2>5, <3>2, Zenon
      <4> HIDE DEF E, f, m
      <4>2. SumFunctionOnSet(f, E) = f[m] + SumFunctionOnSet(f, E \ {m})
          BY <4>1, SumRemove
      <4> QED BY <4>2 DEF E
    <3>5. SumFunctionOnSet(f, DOMAIN cache_' \ {m}) = SumFunctionOnSet(f, K)
        BY <2>3, Zenon
    <3>6. Footprint' = SumFunctionOnSet(f, DOMAIN cache_')
        BY Zenon DEF Footprint, Bytes
    <3> HIDE DEF f
    <3> QED BY <3>1, <3>3, <3>4, <3>5, <3>6
  <2>7. Bytes(K) \in Nat /\ Bytes(D \ V) = Bytes(K) + IF m \in D \ V THEN cache_[m].memory_usage ELSE 0
    <3>1. Bytes(K) \in Nat
        BY <2>3, BytesSplit, Zenon
    <3>2. CASE m \notin D \ V
      <4>1. K = D \ V
          BY <3>2
      <4>2. Bytes(K) = Bytes(D \ V)
          BY <4>1, Zenon
      <4> QED BY <3>1, <3>2, <4>2
    <3>3. CASE m \in D \ V
      <4> DEFINE g == [k \in D |-> cache_[k].memory_usage]
      <4>1. IsFiniteSet(D \ V) /\ \A k \in D \ V : g[k] \in Nat
          BY <1>1, <2>2, BytesSplit DEF CacheTypeOK, Entry
      <4>2. SumFunctionOnSet(g, D \ V) = g[m] + SumFunctionOnSet(g, K)
          BY <3>3, <4>1, SumRemove
      <4>3. Bytes(D \ V) = g[m] + Bytes(K)
          BY <4>2, Zenon DEF Bytes
      <4>4. g[m] = cache_[m].memory_usage /\ g[m] \in Nat
          BY <3>3, <4>1
      <4> HIDE DEF g
      <4> QED BY <3>1, <3>3, <4>3, <4>4
    <3> QED BY <3>2, <3>3
  <2>8. Footprint = Bytes(V) + Bytes(D \ V) /\ Bytes(V) \in Nat /\ Bytes(D \ V) \in Nat
      BY <2>2, BytesSplit
  <2>9. m \in D \ V => cache_[m].memory_usage \in Nat
      BY <1>1 DEF CacheTypeOK, Entry
  <2>10. /\ current_bytes_' \in Nat /\ current_bytes_' >= Footprint' /\ Footprint' <= MaxBytes
         /\ current_bytes_' - Footprint'
              = current_bytes_ - Footprint + IF m \in D \ V THEN cache_[m].memory_usage ELSE 0
    <3> DEFINE over == IF m \in D \ V THEN cache_[m].memory_usage ELSE 0
    <3>1. /\ over \in Nat /\ current_bytes_ \in Nat /\ current_bytes_ >= Footprint
          /\ MaxBytes \in Nat /\ usage \in Nat
          /\ current_bytes_' = current_bytes_ - Bytes(V) + usage
          /\ Bytes(D \ V) + usage <= MaxBytes /\ Footprint' = usage + Bytes(K)
          /\ Bytes(K) \in Nat /\ Bytes(D \ V) = Bytes(K) + over
          /\ Footprint = Bytes(V) + Bytes(D \ V) /\ Bytes(V) \in Nat /\ Bytes(D \ V) \in Nat
        BY <1>1, <1>2, <2>1, <2>2, <2>6, <2>7, <2>8, <2>9, Zenon
    <3> HIDE DEF over, usage, K, D
    <3>2. /\ current_bytes_' \in Nat /\ current_bytes_' >= Footprint' /\ Footprint' <= MaxBytes
          /\ current_bytes_' - Footprint' = current_bytes_ - Footprint + over
        BY <3>1
    <3> QED BY <3>2, Zenon DEF over
  <2>11. CacheTypeOK'
    <3>1. DOMAIN cache_' \subseteq Models
        BY <1>1, <1>2, <2>3 DEF CacheTypeOK
    <3>2. cache_' \in [DOMAIN cache_' -> Entry]
        BY <2>1, <2>3, <2>4, Zenon
    <3> QED BY <1>1, <1>2, <2>10, <3>1, <3>2 DEF CacheTypeOK
  <2>12. EntriesInv'
      BY <2>5, <2>10, <2>11 DEF EntriesInv, CacheInv, WithinLimits, NeverUndercounts, Footprint
  <2>13. Drift' = Drift \/ Overwrites(c)
    <3>1. Drift = current_bytes_ - Footprint /\ Drift' = current_bytes_' - Footprint'
        BY DEF Drift, Footprint
    <3>2. Footprint \in Nat
        BY <2>2, BytesSplit, Zenon
    <3>3. CASE m \in D \ V
        BY <1>2, <2>10, <3>1, <3>3 DEF Overwrites
    <3>4. CASE m \notin D \ V
        BY <1>1, <2>10, <3>1, <3>2, <3>4
    <3> QED BY <3>3, <3>4
  <2> QED BY <2>12, <2>13
<1> QED BY <1>1, <1>2, <1>3, <1>4

\* The steps of GetOrCreate before the load, and a load that fails.
LEMMA LookupStep ==
    ASSUME EntriesInv, NEW c \in Callers, NEW m \in Models, NEW p \in Paths,
           Hit(c, m, p) \/ Miss(c, m, p) \/ LoadFails(c)
    PROVE  EntriesInv' /\ Drift' = Drift
<1>1. CacheTypeOK
    BY DEF EntriesInv, CacheInv
<1>2. CASE Hit(c, m, p)
  <2>1. /\ DOMAIN cache_' = DOMAIN cache_
        /\ \A k \in DOMAIN cache_ : cache_'[k].memory_usage = cache_[k].memory_usage
        /\ \A k \in DOMAIN cache_ : cache_'[k] \in Entry
        /\ UNCHANGED <<current_bytes_, now, call>>
      BY <1>1, <1>2 DEF Hit, CacheTypeOK, Entry
  <2>2. cache_' \in [DOMAIN cache_' -> Entry]
      BY <1>2, <2>1, Zenon DEF Hit
  <2>3. CacheTypeOK'
      BY <1>1, <2>1, <2>2 DEF CacheTypeOK
  <2>4. Bytes({}) = 0 /\ DOMAIN cache_ \ {} = DOMAIN cache_
      BY SumEmpty DEF Bytes
  <2>5. current_bytes_' = current_bytes_ - Bytes({})
      BY <1>1, <2>1, <2>4 DEF CacheTypeOK
  <2>6. /\ {} \in SUBSET DOMAIN cache_ /\ DOMAIN cache_' = DOMAIN cache_ \ {}
        /\ \A k \in DOMAIN cache_' : cache_'[k].memory_usage = cache_[k].memory_usage
      BY <2>1, <2>4, Zenon
  <2> QED BY <2>3, <2>5, <2>6, DropStep, Zenon
<1>3. CASE Miss(c, m, p)
  <2> DEFINE V == {m} \cap DOMAIN cache_
  <2>1. /\ cache_' = [k \in DOMAIN cache_ \ {m} |-> cache_[k]]
        /\ current_bytes_' = current_bytes_ - Bytes(V)
        /\ call' = [call EXCEPT ![c] = [model |-> m, path |-> p, at |-> now]] /\ now' = now
      BY <1>3 DEF Miss, Without, Restrict
  <2>2. /\ DOMAIN cache_' = DOMAIN cache_ \ V
        /\ \A k \in DOMAIN cache_' : cache_'[k].memory_usage = cache_[k].memory_usage
        /\ cache_' \in [DOMAIN cache_' -> Entry]
      BY <1>1, <2>1 DEF CacheTypeOK
  <2>3. current_bytes_' \in Nat
    <3>1. Bytes(V) \in Nat /\ Footprint = Bytes(V) + Bytes(DOMAIN cache_ \ V)
          /\ Bytes(DOMAIN cache_ \ V) \in Nat
        BY BytesSplit
    <3>2. current_bytes_ \in Nat /\ current_bytes_ >= Footprint
        BY <1>1 DEF EntriesInv, CacheInv, CacheTypeOK, NeverUndercounts, Footprint
    <3> QED BY <2>1, <3>1, <3>2
  <2>4. CacheTypeOK'
      BY <1>1, <2>1, <2>2, <2>3 DEF CacheTypeOK
  <2> QED BY <2>1, <2>2, <2>4, DropStep
<1>4. CASE LoadFails(c)
  <2>1. UNCHANGED <<cache_, current_bytes_, now>>
      BY <1>4 DEF LoadFails
  <2>2. CacheTypeOK'
      BY <1>1, <1>4, <2>1, CallEnds DEF LoadFails, CacheTypeOK
  <2> QED BY <2>1, <2>2 DEF EntriesInv, CacheInv, WithinLimits, NeverUndercounts, Drift, Bytes
<1> QED BY <1>2, <1>3, <1>4

LEMMA InvalidateStep ==
    ASSUME EntriesInv, NEW m \in Models, Invalidate(m)
    PROVE  EntriesInv' /\ Drift' = Drift
<1>1. CacheTypeOK /\ {m} \in SUBSET DOMAIN cache_
    BY DEF EntriesInv, CacheInv, Invalidate
<1>2. /\ cache_' = [k \in DOMAIN cache_ \ {m} |-> cache_[k]]
      /\ current_bytes_' = current_bytes_ - Bytes({m})
      /\ UNCHANGED <<now, call>>
    BY DEF Invalidate, Without, Restrict
<1>3. /\ DOMAIN cache_' = DOMAIN cache_ \ {m}
      /\ \A k \in DOMAIN cache_' : cache_'[k].memory_usage = cache_[k].memory_usage
      /\ cache_' \in [DOMAIN cache_' -> Entry]
    BY <1>1, <1>2 DEF CacheTypeOK
<1>4. current_bytes_' \in Nat
  <2>1. Bytes({m}) \in Nat /\ Footprint = Bytes({m}) + Bytes(DOMAIN cache_ \ {m})
        /\ Bytes(DOMAIN cache_ \ {m}) \in Nat
      BY <1>1, BytesSplit
  <2>2. current_bytes_ \in Nat /\ current_bytes_ >= Footprint
      BY <1>1 DEF EntriesInv, CacheInv, CacheTypeOK, NeverUndercounts, Footprint
  <2> QED BY <1>2, <2>1, <2>2
<1>5. CacheTypeOK'
    BY <1>1, <1>2, <1>3, <1>4 DEF CacheTypeOK
<1> QED BY <1>1, <1>2, <1>3, <1>5, DropStep

\* An empty cache with a counter of 0.
LEMMA EmptyCache == CacheTypeOK /\ cache_ = [m \in {} |-> Idle] /\ current_bytes_ = 0 => EntriesInv
<1> SUFFICES ASSUME CacheTypeOK, cache_ = [m \in {} |-> Idle], current_bytes_ = 0 PROVE EntriesInv
    OBVIOUS
<1>1. DOMAIN cache_ = {}
    OBVIOUS
<1>2. Bytes(DOMAIN cache_) = 0
  <2>1. Bytes({}) = 0
      BY SumEmpty DEF Bytes
  <2> QED BY <1>1, <2>1, Zenon
<1>3. IsFiniteSet(DOMAIN cache_) /\ Cardinality(DOMAIN cache_) = 0
    BY <1>1, FS_EmptySet, Zenon
<1> QED BY <1>2, <1>3, CacheAssumption DEF EntriesInv, CacheInv, WithinLimits, NeverUndercounts

\* Clear empties the cache; CacheTick and stuttering leave it alone.
LEMMA OtherStep ==
    ASSUME EntriesInv, Clear \/ CacheTick \/ UNCHANGED cacheVars
    PROVE  /\ EntriesInv'
           /\ \/ Drift' = Drift
              \/ cache_' = [m \in {} |-> Idle] /\ current_bytes_' = 0
<1>1. CacheTypeOK
    BY DEF EntriesInv, CacheInv
<1>2. CASE Clear
  <2>1. cache_' = [m \in {} |-> Idle] /\ current_bytes_' = 0 /\ UNCHANGED <<now, call>>
      BY <1>2 DEF Clear
  <2>2. CacheTypeOK'
      BY <1>1, <2>1 DEF CacheTypeOK
  <2>3. (CacheTypeOK /\ cache_ = [m \in {} |-> Idle] /\ current_bytes_ = 0 => EntriesInv)'
      BY EmptyCache, PTL
  <2> QED BY <2>1, <2>2, <2>3
<1>3. CASE CacheTick \/ UNCHANGED cacheVars
  <2>1. UNCHANGED <<cache_, current_bytes_, call>> /\ now' \in 0..MaxTime
      BY <1>1, <1>3, CacheAssumption DEF CacheTick, cacheVars, CacheTypeOK
  <2>2. CacheTypeOK'
      BY <1>1, <2>1 DEF CacheTypeOK
  <2> QED BY <2>1, <2>2 DEF EntriesInv, CacheInv, WithinLimits, NeverUndercounts, Drift, Bytes
<1> QED BY <1>2, <1>3

LEMMA CacheInitInv == ASSUME CacheInit PROVE EntriesInv
<1>1. CacheTypeOK
    BY CacheAssumption DEF CacheInit, CacheTypeOK, Entry
<1> QED BY <1>1, EmptyCache DEF CacheInit

\* One step keeps the invariant and the counter's distance from the footprint, unless
\* the cache is cleared or an entry overwritten.
LEMMA CacheNextInv ==
    ASSUME EntriesInv, [CacheNext]_cacheVars
    PROVE  /\ EntriesInv'
           /\ \/ Drift' = Drift
              \/ cache_' = [m \in {} |-> Idle] /\ current_bytes_' = 0
              \/ \E c \in Callers : Overwrites(c)
<1>1. CASE \E c \in Callers : Insert(c)
    BY <1>1, CacheInsertStep
<1>2. CASE \E c \in Callers : \E m \in Models, p \in Paths : Hit(c, m, p) \/ Miss(c, m, p)
    BY <1>2, LookupStep
<1>3. CASE \E c \in Callers : LoadFails(c)
  <2>1. PICK c \in Callers : LoadFails(c)
      BY <1>3
  <2>2. call[c].model \in Models /\ call[c].path \in Paths
      BY <2>1, CallEnds, Zenon DEF LoadFails, EntriesInv, CacheInv
  <2> QED BY <2>1, <2>2, LookupStep
<1>4. CASE \E m \in Models : Invalidate(m)
    BY <1>4, InvalidateStep
<1>5. CASE Clear \/ CacheTick \/ UNCHANGED cacheVars
    BY <1>5, OtherStep
<1> QED BY <1>1, <1>2, <1>3, <1>4, <1>5 DEF CacheNext, GetOrCreate

-----------------------------------------------------------------------------
(* Theorems *)

\* The invariant holds of every behaviour.
THEOREM CacheInvariance == CacheSpec => []EntriesInv
<1>1. CacheInit => EntriesInv
    BY CacheInitInv
<1>2. EntriesInv /\ [CacheNext]_cacheVars => EntriesInv'
    BY CacheNextInv
<1> QED BY <1>1, <1>2, PTL DEF CacheSpec

\* PcaModelCache keeps to max_entries_ and max_bytes_ and its counter never wraps around,
\* however many callers load at the same time.
THEOREM LimitsHold == CacheSpec => []CacheInv
<1>1. EntriesInv => CacheInv
    BY DEF EntriesInv
<1> QED BY <1>1, CacheInvariance, PTL

\* Only an insertion that overwrites an entry makes the counter of GetOrCreate drift.
THEOREM DriftExplained == CacheSpec => DriftOnlyByOverwrite
<1>1. EntriesInv /\ [CacheNext]_cacheVars =>
        [\/ Drift' = Drift
         \/ cache_' = [m \in {} |-> Idle] /\ current_bytes_' = 0
         \/ \E c \in Callers :
               /\ call[c] # Idle /\ call'[c] = Idle
               /\ call[c].model \in DOMAIN cache_
               /\ Drift' = Drift + cache_[call[c].model].memory_usage]_cacheVars
    BY CacheNextInv DEF Overwrites
<1> QED BY <1>1, CacheInvariance, PTL DEF CacheSpec, DriftOnlyByOverwrite
=============================================================================

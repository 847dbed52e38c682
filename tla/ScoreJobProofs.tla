--------------------------- MODULE ScoreJobProofs ---------------------------
(***************************************************************************)
(* Proofs about ScoreJob for any number of requests, job rows, records,    *)
(* crashes and failing statements.                                         *)
(***************************************************************************)
EXTENDS ScoreJob, FiniteSetTheorems, TLAPS

RowType == [status : Active \cup Terminal \cup {"NONE"},
            total : Count, processed : Count, last : Count]
WorkerType == [pc : WorkerPc \cup {"none", "done"}, total : Count,
               processed : Count, last : Count, n : 0..Batch]

\* The first n of N records have a score in sc.
Backed(n, N, sc) == n <= N /\ \A i \in 1..n : sc[i] > 0

RowOK(r, N, sc) ==
    /\ r.processed = r.last
    /\ Backed(r.last, N, sc)
    /\ r.total <= N
    /\ r.status = "COMPLETED" => r.total <= r.last

\* What the thread of a job has in its local variables is backed like the row, and
\* may be ahead of the row by the batch that it has just inserted.
LocalsOK(w, f, N, sc) ==
    /\ w.processed = w.last
    /\ Backed(w.last, N, sc)
    /\ w.total <= N
    /\ w.pc = "insert" => w.last + w.n <= N
    /\ w.pc = "advance" => Backed(w.last + w.n, N, sc)
    /\ w.pc = "end" => f \/ w.total <= w.last

Scoring == {"announce", "model", "fetch", "insert", "advance", "end"}

\* Only the thread of a job completes or cancels it, as its last act; the catch block
\* reports the progress that it has read.
OwnerOK(r, w) ==
    /\ w.pc \in Scoring => r.status \notin {"COMPLETED", "CANCELLED"}
    /\ w.pc = "report" => w.total = r.total /\ w.processed = r.processed /\ w.last = r.last

JobOK(r, w, f, N, sc) == RowOK(r, N, sc) /\ LocalsOK(w, f, N, sc) /\ OwnerOK(r, w)

IInv == TypeOK /\ \A j \in Jobs : JobOK(row[j], worker[j], stop_flag[j], records, scores)

-----------------------------------------------------------------------------
(* Facts about one job *)

\* FetchScoringRowsAfterRecord returns a full batch or what is left.
LEMMA FetchedRows ==
    ASSUME NEW b \in Nat, NEW r \in Nat
    PROVE  Min({b, r}) \in {b, r} /\ Min({b, r}) <= b /\ Min({b, r}) <= r
BY DEF Min

\* More records and more scores do no harm.
LEMMA Monotone ==
    ASSUME NEW N \in Count, NEW sc \in [1..MaxRecords -> Nat],
           NEW N2 \in Count, NEW sc2 \in [1..MaxRecords -> Nat],
           N <= N2, \A i \in 1..MaxRecords : sc[i] <= sc2[i],
           NEW r \in RowType, NEW w \in WorkerType, NEW f, JobOK(r, w, f, N, sc)
    PROVE  JobOK(r, w, f, N2, sc2)
<1> USE ScoreJobAssumption DEF Count
<1>1. ASSUME NEW n \in Nat, Backed(n, N, sc) PROVE Backed(n, N2, sc2)
    BY <1>1 DEF Backed
<1>2. /\ r.last \in Nat /\ r.total \in Nat /\ w.last \in Nat /\ w.total \in Nat /\ w.n \in Nat
      /\ w.last + w.n \in Nat
    BY DEF RowType, WorkerType
<1> QED BY <1>1, <1>2 DEF JobOK, RowOK, LocalsOK

\* Claiming or reconciling a row changes its status only.
LEMMA StatusChange ==
    ASSUME NEW r \in RowType, NEW s \in Active \cup {"FAILED"},
           NEW w, NEW f, NEW N, NEW sc, JobOK(r, w, f, N, sc)
    PROVE  /\ [r EXCEPT !.status = s] \in RowType
           /\ JobOK([r EXCEPT !.status = s], w, f, N, sc)
<1>1. /\ [r EXCEPT !.status = s] \in RowType
      /\ [r EXCEPT !.status = s].status = s
      /\ [r EXCEPT !.status = s].total = r.total
      /\ [r EXCEPT !.status = s].processed = r.processed
      /\ [r EXCEPT !.status = s].last = r.last
    BY DEF RowType, Terminal
<1> QED BY <1>1 DEF JobOK, RowOK, OwnerOK, Active

\* A thread that goes on with the locals it has.
LEMMA PcChange ==
    ASSUME NEW w \in WorkerType, NEW p \in WorkerPc
    PROVE  /\ [w EXCEPT !.pc = p] \in WorkerType
           /\ [w EXCEPT !.pc = p].pc = p
           /\ [w EXCEPT !.pc = p].total = w.total
           /\ [w EXCEPT !.pc = p].processed = w.processed
           /\ [w EXCEPT !.pc = p].last = w.last
           /\ [w EXCEPT !.pc = p].n = w.n
BY DEF WorkerType

\* A thread that has no locals: not started, just started, failed or done.
LEMMA FreshWorker ==
    ASSUME NEW p \in {"none", "load", "fail", "done"}, NEW r, NEW f, NEW N \in Count, NEW sc,
           RowOK(r, N, sc)
    PROVE  /\ [NoWorker EXCEPT !.pc = p] \in WorkerType
           /\ JobOK(r, [NoWorker EXCEPT !.pc = p], f, N, sc)
<1>1. [NoWorker EXCEPT !.pc = p] = [pc |-> p, total |-> 0, processed |-> 0, last |-> 0, n |-> 0]
    BY DEF NoWorker
<1>2. [pc |-> p, total |-> 0, processed |-> 0, last |-> 0, n |-> 0] \in WorkerType
    BY ScoreJobAssumption DEF WorkerType, WorkerPc, Count
<1>3. JobOK(r, [pc |-> p, total |-> 0, processed |-> 0, last |-> 0, n |-> 0], f, N, sc)
    BY ScoreJobAssumption DEF JobOK, LocalsOK, OwnerOK, Backed, Count, Scoring
<1> QED BY <1>1, <1>2, <1>3

\* The types of the state of one job.
LEMMA JobTypes ==
    ASSUME TypeOK, NEW j \in Jobs
    PROVE  row[j] \in RowType /\ worker[j] \in WorkerType
BY DEF TypeOK, RowType, WorkerType

\* A statement was executed or has failed.
LEMMA FaultsType == ASSUME TypeOK, Executed \/ Failed PROVE faults' \in 0..MaxFaults
BY ScoreJobAssumption DEF TypeOK, Executed, Failed

\* A step of the thread of j replaces its row and its locals by good ones.
LEMMA JobStep ==
    ASSUME IInv, NEW j \in Jobs, NEW r \in RowType, NEW w \in WorkerType,
           JobOK(r, w, stop_flag[j], records, scores),
           row' = [row EXCEPT ![j] = r], worker' = [worker EXCEPT ![j] = w],
           faults' \in 0..MaxFaults, UNCHANGED <<records, scores, req, stop_flag, server>>
    PROVE  IInv'
<1>1. TypeOK'
  <2>1. row' \in [Jobs -> RowType] /\ worker' \in [Jobs -> WorkerType]
      BY DEF IInv, TypeOK, RowType, WorkerType
  <2> QED BY <2>1, Zenon DEF IInv, TypeOK, RowType, WorkerType, Jobs, Count
<1>2. ASSUME NEW k \in Jobs
      PROVE  JobOK(row'[k], worker'[k], stop_flag'[k], records', scores')
  <2>1. row'[k] = (IF k = j THEN r ELSE row[k]) /\ worker'[k] = (IF k = j THEN w ELSE worker[k])
      BY DEF IInv, TypeOK
  <2> QED BY <2>1 DEF IInv
<1> QED BY <1>1, <1>2 DEF IInv, Jobs

\* ... or its locals only.
LEMMA LocalStep ==
    ASSUME IInv, NEW j \in Jobs, NEW w \in WorkerType,
           JobOK(row[j], w, stop_flag[j], records, scores),
           worker' = [worker EXCEPT ![j] = w],
           faults' \in 0..MaxFaults, UNCHANGED <<row, records, scores, req, stop_flag, server>>
    PROVE  IInv'
<1>1. row' = [row EXCEPT ![j] = row[j]] /\ row[j] \in RowType
    BY JobTypes DEF IInv, TypeOK
<1> QED BY <1>1, JobStep, Zenon

\* A thread that gives up, or has failed before it wrote its row.
LEMMA LeaveStep ==
    ASSUME IInv, NEW j \in Jobs, NEW p \in {"fail", "done"}, Leave(j, p), Executed \/ Failed,
           UNCHANGED <<row, records, scores, req, stop_flag, server>>
    PROVE  IInv'
<1>1. records \in Count /\ RowOK(row[j], records, scores) /\ faults' \in 0..MaxFaults
    BY FaultsType DEF IInv, TypeOK, JobOK
<1> QED BY <1>1, FreshWorker, LocalStep, Zenon DEF Leave

\* A thread that goes on with the locals it has.
LEMMA GotoStep ==
    ASSUME IInv, NEW j \in Jobs, NEW p \in WorkerPc, Goto(j, p), Executed \/ Failed,
           UNCHANGED <<row, records, scores, req, stop_flag, server>>,
           JobOK(row[j], [worker[j] EXCEPT !.pc = p], stop_flag[j], records, scores)
    PROVE  IInv'
<1>1. worker[j] \in WorkerType /\ faults' \in 0..MaxFaults
    BY FaultsType, JobTypes DEF IInv
<1>2. worker' = [worker EXCEPT ![j] = [worker[j] EXCEPT !.pc = p]]
    BY DEF Goto
<1> QED BY <1>1, <1>2, PcChange, LocalStep, Zenon

\* A thread that takes over the progress of its row.
LEMMA LocalsFromRow ==
    ASSUME IInv, NEW j \in Jobs, NEW p \in {"count", "report"},
           Local(j, p, row[j].total, row[j].processed, row[j].last), Executed,
           UNCHANGED <<row, records, scores, req, stop_flag, server>>
    PROVE  IInv'
<1> DEFINE w == [pc |-> p, total |-> row[j].total, processed |-> row[j].processed,
                 last |-> row[j].last, n |-> 0]
<1>1. row[j] \in RowType /\ RowOK(row[j], records, scores) /\ faults' \in 0..MaxFaults
    BY JobTypes, FaultsType DEF IInv, JobOK
<1>2. w \in WorkerType
    BY <1>1, ScoreJobAssumption DEF RowType, WorkerType, WorkerPc
<1>3. JobOK(row[j], w, stop_flag[j], records, scores)
    BY <1>1 DEF JobOK, RowOK, LocalsOK, OwnerOK, Scoring
<1>4. worker' = [worker EXCEPT ![j] = w]
    BY DEF Local
<1> QED BY <1>1, <1>2, <1>3, <1>4, LocalStep, Zenon

-----------------------------------------------------------------------------
(* Preservation, one step per action *)

\* The steps of a thread that only read the tables preserve it.
LEMMA ReadStep ==
    ASSUME IInv, NEW j \in Jobs,
           \/ Load(j) \/ CountRecords(j) \/ Recheck(j) \/ LoadModel(j) \/ Fetch(j)
           \/ CatchRead(j)
    PROVE  IInv'
<1>1. /\ row[j] \in RowType /\ worker[j] \in WorkerType /\ records \in Count
      /\ JobOK(row[j], worker[j], stop_flag[j], records, scores)
    BY JobTypes DEF IInv, TypeOK
<1>2. CASE Load(j) \/ CatchRead(j)
    BY <1>2, LocalsFromRow, LeaveStep DEF Load, CatchRead
<1>3. CASE CountRecords(j)
  <2>1. CASE Failed /\ Leave(j, "fail")
      BY <1>3, <2>1, LeaveStep DEF CountRecords
  <2>2. CASE Executed /\ worker' = [worker EXCEPT ![j].pc = "claim", ![j].total = records]
    <3> DEFINE w == [worker[j] EXCEPT !.pc = "claim", !.total = records]
    <3>1. /\ w \in WorkerType /\ w.pc = "claim" /\ w.total = records /\ w.last = worker[j].last
          /\ w.processed = worker[j].processed
        BY <1>1, Zenon DEF WorkerType, WorkerPc
    <3>2. JobOK(row[j], w, stop_flag[j], records, scores)
        BY <1>1, <3>1 DEF JobOK, LocalsOK, OwnerOK, Scoring, Count
    <3>3. worker' = [worker EXCEPT ![j] = w]
        BY <2>2, ZenonT(30) DEF IInv, TypeOK
    <3>4. faults' \in 0..MaxFaults
        BY <2>2, FaultsType DEF IInv
    <3> QED BY <1>3, <3>1, <3>2, <3>3, <3>4, LocalStep, Zenon DEF CountRecords
  <2> QED BY <1>3, <2>1, <2>2 DEF CountRecords
<1>4. CASE Recheck(j)
  <2>1. CASE Leave(j, "fail") \/ Leave(j, "done")
      BY <1>4, <2>1, LeaveStep DEF Recheck
  <2>2. CASE Executed /\ row[j].status = "RUNNING" /\ Goto(j, "announce")
    <3>1. JobOK(row[j], [worker[j] EXCEPT !.pc = "announce"], stop_flag[j], records, scores)
        BY <1>1, <2>2, PcChange, Zenon DEF JobOK, LocalsOK, OwnerOK, WorkerPc
    <3> QED BY <1>4, <2>2, <3>1, GotoStep, Zenon DEF Recheck, WorkerPc
  <2> QED BY <1>4, <2>1, <2>2 DEF Recheck
<1>5. CASE LoadModel(j)
  <2>1. CASE Leave(j, "fail")
      BY <1>5, <2>1, LeaveStep DEF LoadModel, Executed
  <2>2. CASE Goto(j, "fetch")
    <3>1. JobOK(row[j], [worker[j] EXCEPT !.pc = "fetch"], stop_flag[j], records, scores)
        BY <1>1, <1>5, PcChange, Zenon DEF LoadModel, JobOK, LocalsOK, OwnerOK, WorkerPc, Scoring
    <3> QED BY <1>5, <2>2, <3>1, GotoStep, ZenonT(30) DEF LoadModel, WorkerPc, Executed
  <2> QED BY <1>5, <2>1, <2>2 DEF LoadModel
<1>6. CASE Fetch(j)
  <2> USE <1>6 DEF Fetch
  <2>0. /\ worker[j].pc = "fetch" /\ worker[j].last \in Nat /\ worker[j].last <= records
        /\ worker[j].total <= records /\ Batch \in Nat \ {0} /\ records - worker[j].last \in Nat
      BY <1>1, ScoreJobAssumption DEF WorkerType, Count, JobOK, LocalsOK, Backed
  <2>1. CASE Leave(j, "fail") /\ Failed
      BY <2>1, LeaveStep
  <2>2. CASE Executed /\ Goto(j, "end") /\ (stop_flag[j] \/ RowsAfter(worker[j].last) = 0)
    <3>1. stop_flag[j] \/ worker[j].total <= worker[j].last
        BY <1>1, <2>0, <2>2, FetchedRows DEF RowsAfter, Count, WorkerType
    <3>2. JobOK(row[j], [worker[j] EXCEPT !.pc = "end"], stop_flag[j], records, scores)
        BY <1>1, <2>0, <3>1, PcChange, Zenon DEF JobOK, LocalsOK, OwnerOK, WorkerPc, Scoring
    <3> QED BY <2>2, <3>2, GotoStep, Zenon DEF WorkerPc
  <2>3. CASE /\ Executed /\ RowsAfter(worker[j].last) # 0
             /\ worker' = [worker EXCEPT ![j].pc = "insert", ![j].n = RowsAfter(worker[j].last)]
    <3> DEFINE w == [worker[j] EXCEPT !.pc = "insert", !.n = RowsAfter(worker[j].last)]
    <3>1. /\ RowsAfter(worker[j].last) \in 0..Batch
          /\ worker[j].last + RowsAfter(worker[j].last) <= records
      <4>1. /\ RowsAfter(worker[j].last) \in Nat /\ RowsAfter(worker[j].last) <= Batch
            /\ RowsAfter(worker[j].last) <= records - worker[j].last
          BY <2>0, FetchedRows, Zenon DEF RowsAfter
      <4> QED BY <1>1, <2>0, <4>1 DEF Count
    <3>2. /\ w \in WorkerType /\ w.pc = "insert" /\ w.n = RowsAfter(worker[j].last)
          /\ w.total = worker[j].total /\ w.processed = worker[j].processed
          /\ w.last = worker[j].last
        BY <1>1, <3>1, Zenon DEF WorkerType, WorkerPc
    <3>3. JobOK(row[j], w, stop_flag[j], records, scores)
        BY <1>1, <2>0, <3>1, <3>2 DEF JobOK, LocalsOK, OwnerOK, Scoring
    <3>4. worker' = [worker EXCEPT ![j] = w]
        BY <2>3, Zenon DEF IInv, TypeOK
    <3>5. faults' \in 0..MaxFaults
        BY <2>3, FaultsType DEF IInv
    <3> QED BY <3>2, <3>3, <3>4, <3>5, LocalStep, Zenon
  <2> QED BY <2>1, <2>2, <2>3
<1> QED BY <1>2, <1>3, <1>4, <1>5, <1>6

\* Writing the row and leaving the statement unexecuted both preserve it, when the
\* locals of the thread go with the row as it was and with the row as it is written.
LEMMA UpdateStep ==
    ASSUME IInv, NEW j \in Jobs, NEW w \in WorkerType,
           NEW s \in Active \cup Terminal, NEW t \in Count, NEW p \in Count, NEW l \in Count,
           UpdateScoreJob(j, s, t, p, l), worker' = [worker EXCEPT ![j] = w],
           UNCHANGED <<records, scores, req, stop_flag, server>>,
           JobOK([status |-> s, total |-> t, processed |-> p, last |-> l], w,
                 stop_flag[j], records, scores),
           JobOK(row[j], w, stop_flag[j], records, scores)
    PROVE  IInv'
<1>1. faults' \in 0..MaxFaults
    BY FaultsType DEF IInv, UpdateScoreJob
<1>2. [status |-> s, total |-> t, processed |-> p, last |-> l] \in RowType
    BY DEF RowType
<1> QED BY <1>1, <1>2, JobStep, LocalStep, Zenon DEF UpdateScoreJob

\* The steps of a thread that write its row preserve it.
LEMMA WriteStep ==
    ASSUME IInv, NEW j \in Jobs,
           Claim(j) \/ Announce(j) \/ Advance(j) \/ End(j) \/ CatchReport(j)
    PROVE  IInv'
<1> DEFINE w == worker[j]
<1>1. /\ row[j] \in RowType /\ worker[j] \in WorkerType /\ records \in Count
      /\ JobOK(row[j], worker[j], stop_flag[j], records, scores)
    BY JobTypes DEF IInv, TypeOK
<1>2. /\ w.total \in Count /\ w.processed \in Count /\ w.last \in Count /\ w.n \in 0..Batch
    BY <1>1 DEF WorkerType
<1>3. CASE Claim(j)
  <2>1. CASE Executed /\ row' = [row EXCEPT ![j].status = "RUNNING"] /\ Goto(j, "announce")
    <3> DEFINE r == [row[j] EXCEPT !.status = "RUNNING"]
               v == [worker[j] EXCEPT !.pc = "announce"]
    <3>1. r \in RowType /\ JobOK(r, worker[j], stop_flag[j], records, scores)
        BY <1>1, StatusChange, ZenonT(30) DEF Active
    <3>2. r.status = "RUNNING"
        BY <1>1 DEF RowType
    <3>3. v \in WorkerType /\ JobOK(r, v, stop_flag[j], records, scores)
      <4>1. /\ v \in WorkerType /\ v.pc = "announce" /\ v.total = w.total
            /\ v.processed = w.processed /\ v.last = w.last
          BY <1>1, PcChange, ZenonT(30) DEF WorkerPc
      <4> HIDE DEF r, v
      <4> QED BY <3>1, <3>2, <4>1 DEF JobOK, LocalsOK, OwnerOK
    <3>4. row' = [row EXCEPT ![j] = r] /\ worker' = [worker EXCEPT ![j] = v]
        BY <2>1 DEF Goto
    <3>5. faults' \in 0..MaxFaults
        BY <2>1, FaultsType DEF IInv
    <3> HIDE DEF r, v
    <3> QED BY <1>3, <3>1, <3>3, <3>4, <3>5, JobStep, Zenon DEF Claim
  <2>2. CASE (Executed \/ Failed) /\ Goto(j, "recheck") /\ UNCHANGED row
    <3>1. JobOK(row[j], [worker[j] EXCEPT !.pc = "recheck"], stop_flag[j], records, scores)
      <4> DEFINE v == [worker[j] EXCEPT !.pc = "recheck"]
      <4>1. /\ v.pc = "recheck" /\ v.total = w.total /\ v.processed = w.processed
            /\ v.last = w.last
          BY <1>1, PcChange, Zenon DEF WorkerPc
      <4> HIDE DEF v
      <4>2. JobOK(row[j], v, stop_flag[j], records, scores)
          BY <1>1, <4>1 DEF JobOK, LocalsOK, OwnerOK, Scoring
      <4> QED BY <4>2 DEF v
    <3> QED BY <1>3, <2>2, <3>1, GotoStep, Zenon DEF Claim, WorkerPc
  <2> QED BY <1>3, <2>1, <2>2 DEF Claim
<1>4. CASE Announce(j)
  <2> DEFINE v == [worker[j] EXCEPT !.pc = "model"]
  <2>1. /\ v \in WorkerType /\ v.pc = "model" /\ v.total = w.total
        /\ v.processed = w.processed /\ v.last = w.last
      BY <1>1, PcChange, Zenon DEF WorkerPc
  <2>2. JobOK(row[j], v, stop_flag[j], records, scores)
      BY <1>1, <1>4, <2>1 DEF Announce, JobOK, LocalsOK, OwnerOK, Scoring
  <2>3. JobOK([status |-> "RUNNING", total |-> w.total, processed |-> w.processed,
               last |-> w.last], v, stop_flag[j], records, scores)
      BY <1>1, <2>1 DEF JobOK, RowOK, LocalsOK, OwnerOK
  <2>4. worker' = [worker EXCEPT ![j] = v]
      BY <1>4 DEF Announce, Goto
  <2> HIDE DEF v
  <2> QED BY <1>2, <1>4, <2>1, <2>2, <2>3, <2>4, UpdateStep, Zenon DEF Announce, Active
<1>5. CASE Advance(j)
  <2> DEFINE t == w.total
             l == w.last + w.n
             v == [pc |-> "fetch", total |-> t, processed |-> l, last |-> l, n |-> 0]
  <2>1. l \in Count /\ w.processed = w.last /\ Backed(l, records, scores) /\ t <= records
      BY <1>1, <1>2, <1>5, ScoreJobAssumption DEF Advance, Count, JobOK, LocalsOK, Backed
  <2>2. v \in WorkerType
      BY <1>2, <2>1, ScoreJobAssumption DEF WorkerType, WorkerPc
  <2>3. LocalsOK(v, stop_flag[j], records, scores)
      BY <2>1, Zenon DEF LocalsOK
  <2>4. JobOK(row[j], v, stop_flag[j], records, scores)
      BY <1>1, <1>5, <2>3, Zenon DEF Advance, JobOK, OwnerOK, Scoring
  <2>5. JobOK([status |-> "RUNNING", total |-> t, processed |-> l, last |-> l], v,
              stop_flag[j], records, scores)
      BY <2>1, <2>3 DEF JobOK, RowOK, OwnerOK
  <2>6. UpdateScoreJob(j, "RUNNING", t, l, l) /\ worker' = [worker EXCEPT ![j] = v]
      BY <1>5, <2>1 DEF Advance, Local
  <2>7. t \in Count
      BY <1>2
  <2> HIDE DEF t, l, v
  <2> QED BY <1>5, <2>1, <2>2, <2>4, <2>5, <2>6, <2>7, UpdateStep, Zenon DEF Advance, Active
<1>6. ASSUME NEW s \in Terminal, UpdateScoreJob(j, s, w.total, w.processed, w.last),
             s = "COMPLETED" => w.total <= w.last, Leave(j, "done"),
             UNCHANGED <<records, scores, req, stop_flag, server>>
      PROVE  IInv'
  <2>1. /\ RowOK(row[j], records, scores)
        /\ RowOK([status |-> s, total |-> w.total, processed |-> w.processed,
                  last |-> w.last], records, scores)
      BY <1>1, <1>6 DEF JobOK, RowOK, LocalsOK
  <2> DEFINE v == [NoWorker EXCEPT !.pc = "done"]
  <2>2. /\ v \in WorkerType /\ JobOK(row[j], v, stop_flag[j], records, scores)
        /\ JobOK([status |-> s, total |-> w.total, processed |-> w.processed,
                  last |-> w.last], v, stop_flag[j], records, scores)
      BY <1>1, <2>1, FreshWorker
  <2>3. worker' = [worker EXCEPT ![j] = v]
      BY <1>6 DEF Leave
  <2> HIDE DEF v
  <2> QED BY <1>2, <1>6, <2>2, <2>3, UpdateStep, Zenon
<1>7. CASE End(j)
    BY <1>1, <1>6, <1>7 DEF End, JobOK, LocalsOK, Terminal
<1>8. CASE CatchReport(j)
    BY <1>6, <1>8 DEF CatchReport, Terminal
<1> QED BY <1>3, <1>4, <1>5, <1>7, <1>8

\* Committing the scores of a batch preserves it, for this job and for the others.
LEMMA InsertStep == ASSUME IInv, NEW j \in Jobs, InsertScores(j) PROVE IInv'
<1> DEFINE w == worker[j]
           v == [worker[j] EXCEPT !.pc = "advance"]
<1>1. /\ row[j] \in RowType /\ w \in WorkerType /\ records \in Count
      /\ scores \in [1..MaxRecords -> Nat]
      /\ JobOK(row[j], w, stop_flag[j], records, scores)
    BY JobTypes DEF IInv, TypeOK
<1>2. CASE Failed /\ Leave(j, "fail") /\ UNCHANGED scores
    BY <1>2, LeaveStep DEF InsertScores
<1>3. CASE /\ Executed /\ Goto(j, "advance")
           /\ scores' = [i \in 1..MaxRecords |->
                          scores[i] + (IF i \in (w.last + 1)..(w.last + w.n) THEN 1 ELSE 0)]
  <2>1. /\ w.pc = "insert" /\ UNCHANGED <<row, records, req, stop_flag, server, faults>>
        /\ w.last \in Nat /\ w.n \in Nat /\ w.last + w.n <= records
        /\ records <= MaxRecords /\ records \in Nat /\ MaxRecords \in Nat
      BY <1>1, <1>3, ScoreJobAssumption
      DEF InsertScores, Executed, WorkerType, Count, JobOK, LocalsOK
  <2>2. scores' \in [1..MaxRecords -> Nat] /\ \A i \in 1..MaxRecords : scores[i] <= scores'[i]
      BY <1>1, <1>3
  <2>3. Backed(w.last + w.n, records, scores')
    <3>1. ASSUME NEW i \in 1..(w.last + w.n) PROVE scores'[i] > 0
      <4>1. i \in 1..MaxRecords /\ scores[i] \in Nat
          BY <1>1, <2>1
      <4>2. CASE i \in (w.last + 1)..(w.last + w.n)
          BY <1>3, <4>1, <4>2
      <4>3. CASE i \in 1..w.last
          BY <1>1, <1>3, <4>1, <4>3, <2>2 DEF JobOK, LocalsOK, Backed
      <4> QED BY <2>1, <4>2, <4>3
    <3> QED BY <2>1, <3>1 DEF Backed
  <2>4. /\ v \in WorkerType /\ v.pc = "advance" /\ v.total = w.total
        /\ v.processed = w.processed /\ v.last = w.last /\ v.n = w.n
      BY <1>1, PcChange, Zenon DEF WorkerPc
  <2>5. worker' = [worker EXCEPT ![j] = v]
      BY <1>3 DEF Goto
  <2>6. JobOK(row[j], w, stop_flag[j], records, scores')
    <3>1. records <= records
        BY <2>1
    <3> QED BY <1>1, <2>2, <3>1, Monotone, Zenon
  <2>7. JobOK(row[j], v, stop_flag[j], records, scores')
      BY <2>1, <2>3, <2>4, <2>6 DEF JobOK, LocalsOK, OwnerOK, Scoring
  <2> HIDE DEF v
  <2>8. TypeOK'
    <3>1. worker' \in [Jobs -> WorkerType]
        BY <2>4, <2>5 DEF IInv, TypeOK, WorkerType
    <3> QED BY <2>1, <2>2, <3>1, Zenon DEF IInv, TypeOK, WorkerType, Jobs, Count
  <2>9. ASSUME NEW k \in Jobs
        PROVE  JobOK(row'[k], worker'[k], stop_flag'[k], records', scores')
    <3>1. worker'[k] = IF k = j THEN v ELSE worker[k]
        BY <2>5 DEF IInv, TypeOK
    <3>2. JobOK(row[k], worker[k], stop_flag[k], records, scores')
      <4>1. /\ row[k] \in RowType /\ worker[k] \in WorkerType
            /\ JobOK(row[k], worker[k], stop_flag[k], records, scores)
          BY JobTypes DEF IInv
      <4>2. records <= records
          BY <2>1
      <4> QED BY <1>1, <2>2, <4>1, <4>2, Monotone, Zenon
    <3> QED BY <2>1, <2>7, <3>1, <3>2
  <2> QED BY <2>8, <2>9, Zenon DEF IInv, Jobs
<1> QED BY <1>2, <1>3 DEF InsertScores

\* The steps of a request, except the start of the job, preserve it.
LEMMA RequestStep ==
    ASSUME IInv, NEW q \in Requests,
           CheckExists(q) \/ InsertJob(q) \/ GetJob(q) \/ StartJobRejected(q)
    PROVE  IInv'
<1> DEFINE ReqType == [pc : {"new", "insert", "get", "start", "answered"}, job : Jobs \cup {0}]
<1>1. req \in [Requests -> ReqType]
    BY DEF IInv, TypeOK
<1>2. ASSUME Answer(q) PROVE req' \in [Requests -> ReqType]
    BY <1>1, <1>2 DEF Answer
<1>3. ASSUME NEW j \in Jobs, req' = [req EXCEPT ![q] = [pc |-> "get", job |-> j]]
      PROVE  req' \in [Requests -> ReqType]
    BY <1>1, <1>3
<1>4. ASSUME NEW c \in {"insert", "start"}, req' = [req EXCEPT ![q].pc = c]
      PROVE  req' \in [Requests -> ReqType]
  <2>1. [req[q] EXCEPT !.pc = c] \in ReqType
      BY <1>1
  <2> QED BY <1>1, <1>4, <2>1
<1>5. ASSUME req' \in [Requests -> ReqType], Executed \/ Failed,
             UNCHANGED <<row, records, scores, worker, stop_flag, server>>
      PROVE  IInv'
  <2>1. faults' \in 0..MaxFaults
      BY <1>5, FaultsType DEF IInv
  <2> QED BY <1>5, <2>1, Zenon DEF IInv, TypeOK, Jobs, Count
<1>6. CASE CheckExists(q)
  <2>1. req' \in [Requests -> ReqType]
      BY <1>2, <1>3, <1>4, <1>6 DEF CheckExists
  <2> QED BY <1>5, <1>6, <2>1 DEF CheckExists
<1>7. CASE GetJob(q)
  <2>1. req' \in [Requests -> ReqType]
      BY <1>2, <1>4, <1>7 DEF GetJob
  <2> QED BY <1>5, <1>7, <2>1 DEF GetJob
<1>8. CASE StartJobRejected(q)
    BY <1>2, <1>5, <1>8 DEF StartJobRejected, Executed
<1>9. CASE InsertJob(q)
  <2>1. CASE Failed /\ Answer(q) /\ UNCHANGED row
      BY <1>2, <1>5, <1>9, <2>1 DEF InsertJob
  <2>2. ASSUME NEW j \in Jobs, Executed, row' = [row EXCEPT ![j].status = "PENDING"],
               req' = [req EXCEPT ![q] = [pc |-> "get", job |-> j]]
        PROVE  IInv'
    <3> DEFINE r == [row[j] EXCEPT !.status = "PENDING"]
    <3>1. r \in RowType /\ JobOK(r, worker[j], stop_flag[j], records, scores)
        BY JobTypes, StatusChange, Zenon DEF IInv, Active
    <3>2. row' = [row EXCEPT ![j] = r]
        BY <2>2
    <3> HIDE DEF r
    <3>3. req' \in [Requests -> ReqType] /\ row' \in [Jobs -> RowType] /\ faults' \in 0..MaxFaults
      <4>1. req' \in [Requests -> ReqType]
          BY <1>3, <2>2, Zenon
      <4>2. row' \in [Jobs -> RowType]
          BY <3>1, <3>2 DEF IInv, TypeOK, RowType
      <4>3. faults' \in 0..MaxFaults
          BY <2>2, FaultsType DEF IInv
      <4> QED BY <4>1, <4>2, <4>3
    <3>4. TypeOK'
        BY <1>9, <3>3, Zenon DEF InsertJob, IInv, TypeOK, RowType, Jobs, Count
    <3>5. ASSUME NEW k \in Jobs
          PROVE  JobOK(row'[k], worker'[k], stop_flag'[k], records', scores')
      <4>1. row'[k] = IF k = j THEN r ELSE row[k]
          BY <3>2 DEF IInv, TypeOK
      <4> QED BY <1>9, <3>1, <4>1 DEF InsertJob, IInv
    <3> QED BY <3>4, <3>5 DEF IInv, Jobs
  <2> QED BY <1>9, <2>1, <2>2 DEF InsertJob
<1> QED BY <1>6, <1>7, <1>8, <1>9

\* Raised and reset flags are Booleans.
LEMMA FlagTypes ==
    ASSUME TypeOK
    PROVE  /\ \A q \in Requests : StartJob(q) => stop_flag' \in [Jobs -> BOOLEAN]
           /\ \A p, j : DeleteJob(p, j) => stop_flag' \in [Jobs -> BOOLEAN]
           /\ ProcessDies => stop_flag' \in [Jobs -> BOOLEAN]
BY Zenon DEF TypeOK, StartJob, DeleteJob, ProcessDies

\* Starting the thread of a job preserves it, whatever its row has become.
LEMMA StartStep == ASSUME IInv, NEW q \in Requests, StartJob(q) PROVE IInv'
<1> DEFINE j == req[q].job
           v == [NoWorker EXCEPT !.pc = "load"]
<1>1. v \in WorkerType /\ \A k \in Jobs : JobOK(row[k], v, FALSE, records, scores)
  <2>1. records \in Count /\ 0 \in Count /\ Backed(0, records, scores)
      BY ScoreJobAssumption DEF IInv, TypeOK, Count, Backed
  <2>2. v = [pc |-> "load", total |-> 0, processed |-> 0, last |-> 0, n |-> 0]
      BY DEF NoWorker
  <2>3. v \in WorkerType
      BY <2>1, <2>2, ScoreJobAssumption DEF WorkerType, WorkerPc
  <2> QED BY <2>1, <2>3, FreshWorker, Zenon DEF IInv, JobOK
<1>2. worker' = [worker EXCEPT ![j] = v] /\ stop_flag' = [stop_flag EXCEPT ![j] = FALSE]
    BY DEF StartJob
<1> HIDE DEF v
<1>3. TypeOK'
  <2>1. worker' \in [Jobs -> WorkerType]
      BY <1>1, <1>2, Zenon DEF IInv, TypeOK, WorkerType
  <2>2. req' \in [Requests -> [pc : {"new", "insert", "get", "start", "answered"},
                               job : Jobs \cup {0}]]
      BY DEF IInv, TypeOK, StartJob, Answer
  <2>3. stop_flag' \in [Jobs -> BOOLEAN]
      BY FlagTypes DEF IInv
  <2> QED BY <2>1, <2>2, <2>3, Zenon DEF IInv, TypeOK, StartJob, WorkerType, Jobs, Count
<1>4. ASSUME NEW k \in Jobs
      PROVE  JobOK(row'[k], worker'[k], stop_flag'[k], records', scores')
  <2>1. worker'[k] = IF k = j THEN v ELSE worker[k]
      BY <1>2 DEF IInv, TypeOK
  <2>2. stop_flag'[k] = IF k = j THEN FALSE ELSE stop_flag[k]
      BY <1>2 DEF IInv, TypeOK
  <2>3. UNCHANGED <<row, records, scores>>
      BY DEF StartJob
  <2> QED BY <1>1, <2>1, <2>2, <2>3, Zenon DEF IInv
<1> QED BY <1>3, <1>4 DEF IInv, Jobs

\* The death of the process preserves it.
LEMMA DeathStep ==
    ASSUME IInv, ProcessDies, Executed \/ Failed
    PROVE  IInv'
<1>1. records \in Count /\ UNCHANGED <<row, records, scores>> /\ faults' \in 0..MaxFaults
    BY FaultsType DEF IInv, TypeOK, ProcessDies
<1>2. NoWorker \in WorkerType /\ NoWorker = [NoWorker EXCEPT !.pc = "none"]
    BY ScoreJobAssumption DEF NoWorker, WorkerType, Count
<1>3. worker' = [j \in Jobs |-> NoWorker] /\ stop_flag' \in [Jobs -> BOOLEAN]
    BY FlagTypes DEF ProcessDies, IInv
<1>4. req' \in [Requests -> [pc : {"new", "insert", "get", "start", "answered"},
                             job : Jobs \cup {0}]]
    BY DEF IInv, TypeOK, ProcessDies, NoRequest
<1>5. TypeOK'
  <2>1. worker' \in [Jobs -> WorkerType]
      BY <1>2, <1>3
  <2> QED BY <1>1, <1>3, <1>4, <2>1 DEF IInv, TypeOK, ProcessDies, WorkerType, Jobs, Count
<1>6. ASSUME NEW k \in Jobs
      PROVE  JobOK(row'[k], worker'[k], stop_flag'[k], records', scores')
    BY <1>1, <1>2, <1>3, FreshWorker DEF IInv, JobOK
<1> QED BY <1>5, <1>6 DEF IInv, Jobs

\* The reconciler preserves it, whichever rows it finds stale.
LEMMA ReconcileStep ==
    ASSUME IInv, NEW S, ReconcileStaleJobs(S), server' \in {"up", "down", "boot"},
           UNCHANGED <<records, scores, req, worker, stop_flag>>
    PROVE  IInv'
<1>1. faults' \in 0..MaxFaults
    BY FaultsType DEF IInv, ReconcileStaleJobs
<1>2. ASSUME NEW k \in Jobs
      PROVE  /\ row'[k] \in RowType
             /\ JobOK(row'[k], worker[k], stop_flag[k], records, scores)
  <2>1. row'[k] = row[k] \/ row'[k] = [row[k] EXCEPT !.status = "FAILED"]
      BY DEF ReconcileStaleJobs
  <2>2. row[k] \in RowType /\ JobOK(row[k], worker[k], stop_flag[k], records, scores)
      BY JobTypes DEF IInv
  <2> QED BY <2>1, <2>2, StatusChange
<1>3. row' \in [Jobs -> RowType]
    BY <1>2 DEF ReconcileStaleJobs, IInv, TypeOK
<1>4. TypeOK'
    BY <1>1, <1>3, Zenon DEF IInv, TypeOK, RowType, Jobs, Count
<1> QED BY <1>2, <1>4 DEF IInv, Jobs

\* DELETE /jobs only raises a flag.
LEMMA DeleteStep == ASSUME IInv, NEW p, NEW j \in Jobs, DeleteJob(p, j) PROVE IInv'
<1>1. stop_flag' \in [Jobs -> BOOLEAN] /\ \A k \in Jobs : stop_flag[k] => stop_flag'[k]
  <2>1. stop_flag' \in [Jobs -> BOOLEAN]
      BY FlagTypes DEF IInv
  <2>2. \A k \in Jobs : stop_flag[k] => stop_flag'[k]
      BY Zenon DEF DeleteJob, IInv, TypeOK
  <2> QED BY <2>1, <2>2
<1>2. TypeOK'
    BY <1>1, Zenon DEF DeleteJob, IInv, TypeOK, Jobs, Count
<1>3. ASSUME NEW k \in Jobs
      PROVE  JobOK(row'[k], worker'[k], stop_flag'[k], records', scores')
    BY <1>1 DEF DeleteJob, IInv, JobOK, LocalsOK
<1> QED BY <1>2, <1>3 DEF IInv, Jobs

\* The generator only adds records.
LEMMA AppendStep == ASSUME IInv, AppendRecord PROVE IInv'
<1>1. /\ records \in Count /\ records' \in Count /\ records <= records'
      /\ scores \in [1..MaxRecords -> Nat] /\ \A i \in 1..MaxRecords : scores[i] <= scores[i]
    BY ScoreJobAssumption DEF AppendRecord, IInv, TypeOK, Count
<1>2. TypeOK'
    BY <1>1, Zenon DEF AppendRecord, IInv, TypeOK, Jobs, Count
<1>3. ASSUME NEW k \in Jobs
      PROVE  JobOK(row'[k], worker'[k], stop_flag'[k], records', scores')
  <2>1. /\ row[k] \in RowType /\ worker[k] \in WorkerType
        /\ JobOK(row[k], worker[k], stop_flag[k], records, scores)
      BY JobTypes DEF IInv
  <2>2. JobOK(row[k], worker[k], stop_flag[k], records', scores)
      BY <1>1, <2>1, Monotone, Zenon
  <2> QED BY <2>2 DEF AppendRecord
<1> QED BY <1>2, <1>3 DEF IInv, Jobs

\* A step that changes no table and no thread preserves it.
LEMMA IdleStep ==
    ASSUME IInv, server' \in {"up", "down", "boot"},
           UNCHANGED <<row, records, scores, req, worker, stop_flag, faults>>
    PROVE  IInv'
BY Zenon DEF IInv, TypeOK, Jobs, Count

\* The inductive invariant holds while nothing has been requested.
LEMMA InitInv == ASSUME Init PROVE IInv
<1>1. TypeOK
  <2>1. stop_flag \in [Jobs -> BOOLEAN]
      BY Zenon DEF Init
  <2> QED BY <2>1, ScoreJobAssumption DEF Init, TypeOK, NoRow, NoWorker, NoRequest, Count
<1>2. ASSUME NEW j \in Jobs PROVE JobOK(row[j], worker[j], stop_flag[j], records, scores)
  <2>1. row[j] = NoRow /\ worker[j] = NoWorker /\ records \in Count
      BY DEF Init
  <2>2. RowOK(NoRow, records, scores)
      BY <2>1, ScoreJobAssumption DEF RowOK, NoRow, Backed, Count
  <2>3. NoWorker = [NoWorker EXCEPT !.pc = "none"]
      BY DEF NoWorker
  <2> QED BY <2>1, <2>2, <2>3, FreshWorker
<1> QED BY <1>1, <1>2 DEF IInv

\* Every step preserves it.
LEMMA NextInv == ASSUME IInv, [Next]_vars PROVE IInv'
<1>1. ASSUME NEW q \in Requests, HandleScoreDatasetJob(q) PROVE IInv'
    BY <1>1, RequestStep, StartStep, DeathStep DEF HandleScoreDatasetJob, StartJobTwice
<1>2. ASSUME NEW j \in Jobs, ScoreDataset(j) PROVE IInv'
    BY <1>2, ReadStep, WriteStep, InsertStep DEF ScoreDataset
<1>3. ASSUME NEW j \in Jobs, NEW p \in {"", "score-"}, DeleteJob(p, j) PROVE IInv'
    BY <1>3, DeleteStep, Zenon
<1>4. CASE AppendRecord
    BY <1>4, AppendStep, Zenon
<1>5. ASSUME NEW S \in SUBSET Jobs, RunSweep(S) PROVE IInv'
    BY <1>5, ReconcileStep DEF RunSweep, IInv, TypeOK
<1>6. CASE Crash
    BY <1>6, DeathStep DEF Crash
<1>7. CASE Restart
    BY <1>7, IdleStep DEF Restart
<1>8. CASE ReconcileStartup
    BY <1>8, ReconcileStep, Zenon DEF ReconcileStartup
<1>9. CASE UNCHANGED vars
    BY <1>9, IdleStep DEF vars, IInv, TypeOK
<1> QED BY <1>1, <1>2, <1>3, <1>4, <1>5, <1>6, <1>7, <1>8, <1>9, Zenon DEF Next

-----------------------------------------------------------------------------
(* How often a record is scored *)

Starting == {"load", "count", "claim", "recheck"}
StartRequested(j) == \E q \in Requests : req[q].pc = "start" /\ req[q].job = j
Position(w) == IF w.pc = "advance" THEN w.last + w.n ELSE w.last

\* Job j may yet score record i without any further fault.
MayScore(j, i) ==
    IF worker[j].pc \in Scoring THEN i > Position(worker[j])
    ELSE \/ row[j].status = "PENDING"
         \/ /\ row[j].status = "RUNNING" /\ row[j].last < i
            /\ StartRequested(j) \/ worker[j].pc \in Starting

\* ... or would if one more statement failed: its thread has scored the record, but the
\* row does not know.
Owes(j, i) ==
    MayScore(j, i) \/ (worker[j].pc \in Scoring /\ i <= worker[j].last /\ row[j].last < i)

\* A thread goes on from where the row is; a row that is being scored has been claimed.
FreshOK(j) ==
    /\ worker[j].pc \in {"count", "claim", "recheck", "announce", "model"}
       => worker[j].last = row[j].last
    /\ worker[j].pc \in Scoring => row[j].status \in {"RUNNING", "FAILED"}

May(i) == {j \in Jobs : MayScore(j, i)}
Owing(i) == {j \in Jobs : Owes(j, i)}
Rows == {j \in Jobs : row[j] # NoRow}

\* The account of a record: a score costs a job row or two faults.
Account(i) ==
    2 * scores[i] + Cardinality(May(i)) + Cardinality(Owing(i)) <= 2 * Cardinality(Rows) + faults

OnceInv == (\A j \in Jobs : FreshOK(j)) /\ \A i \in 1..MaxRecords : Account(i)

\* Sets of jobs are finite.
LEMMA JobSets ==
    ASSUME NEW A \in SUBSET Jobs
    PROVE  IsFiniteSet(A) /\ Cardinality(A) \in Nat
<1>1. IsFiniteSet(Jobs)
    BY ScoreJobAssumption, FS_Interval DEF Jobs
<1>2. IsFiniteSet(A)
    BY <1>1, FS_Subset
<1> QED BY <1>2, FS_CardinalityType

\* A part is not larger than the whole.
LEMMA JobSubset ==
    ASSUME NEW A \in SUBSET Jobs, NEW B \in SUBSET A
    PROVE  Cardinality(B) <= Cardinality(A)
<1>1. IsFiniteSet(A)
    BY JobSets
<1> QED BY <1>1, FS_Subset

\* What one job more or less does to a cardinality.
LEMMA JobCounts ==
    ASSUME NEW A \in SUBSET Jobs, NEW B \in SUBSET Jobs, NEW j \in Jobs
    PROVE  /\ B \subseteq A \cup {j} => Cardinality(B) <= Cardinality(A) + 1
           /\ j \in A /\ B \subseteq A \ {j} => Cardinality(B) <= Cardinality(A) - 1
<1>1. /\ IsFiniteSet(A) /\ Cardinality(A) \in Nat /\ IsFiniteSet(B) /\ Cardinality(B) \in Nat
      /\ IsFiniteSet(A \cup {j}) /\ Cardinality(A \cup {j}) \in Nat
      /\ IsFiniteSet(A \ {j}) /\ Cardinality(A \ {j}) \in Nat
  <2>1. A \cup {j} \in SUBSET Jobs /\ A \ {j} \in SUBSET Jobs
      OBVIOUS
  <2> QED BY <2>1, JobSets
<1>2. Cardinality(A \cup {j}) <= Cardinality(A) + 1
    BY <1>1, FS_AddElement
<1>3. j \in A => Cardinality(A \ {j}) = Cardinality(A) - 1
    BY <1>1, FS_RemoveElement
<1>4. B \subseteq A \cup {j} => Cardinality(B) <= Cardinality(A \cup {j})
    BY <1>1, FS_Subset
<1>5. B \subseteq A \ {j} => Cardinality(B) <= Cardinality(A \ {j})
    BY <1>1, FS_Subset
<1> QED BY <1>1, <1>2, <1>3, <1>4, <1>5

\* The entries of the account are natural numbers.
LEMMA AccountTypes ==
    ASSUME TypeOK, NEW i \in 1..MaxRecords
    PROVE  /\ scores[i] \in Nat /\ faults \in Nat
           /\ May(i) \in SUBSET Jobs /\ Owing(i) \in SUBSET Jobs /\ Rows \in SUBSET Jobs
           /\ Cardinality(May(i)) \in Nat /\ Cardinality(Owing(i)) \in Nat
           /\ Cardinality(Rows) \in Nat
<1>1. May(i) \in SUBSET Jobs /\ Owing(i) \in SUBSET Jobs /\ Rows \in SUBSET Jobs
    BY DEF May, Owing, Rows
<1>2. scores[i] \in Nat /\ faults \in Nat
    BY ScoreJobAssumption DEF TypeOK
<1> QED BY <1>1, <1>2, JobSets

\* A step after which no job may score a record that it might not have scored before.
LEMMA QuietStep ==
    ASSUME TypeOK, TypeOK', OnceInv, UNCHANGED scores, faults' >= faults,
           \A k \in Jobs : FreshOK(k)' /\ (row[k] # NoRow => row'[k] # NoRow),
           \A i \in 1..MaxRecords, k \in Jobs :
               (MayScore(k, i)' => MayScore(k, i)) /\ (Owes(k, i)' => Owes(k, i))
    PROVE  OnceInv'
<1>1. ASSUME NEW i \in 1..MaxRecords PROVE Account(i)'
  <2>1. /\ May(i)' \in SUBSET May(i) /\ Owing(i)' \in SUBSET Owing(i) /\ Rows \in SUBSET Rows'
      BY DEF May, Owing, Rows, Jobs
  <2>2. /\ scores[i] \in Nat /\ faults \in Nat /\ faults' \in Nat
        /\ May(i) \in SUBSET Jobs /\ Owing(i) \in SUBSET Jobs /\ Rows' \in SUBSET Jobs
        /\ Cardinality(May(i)) \in Nat /\ Cardinality(Owing(i)) \in Nat
        /\ Cardinality(Rows) \in Nat /\ Cardinality(May(i)') \in Nat
        /\ Cardinality(Owing(i)') \in Nat /\ Cardinality(Rows') \in Nat
    <3>1. /\ (TypeOK => /\ faults \in Nat /\ Rows \in SUBSET Jobs /\ Cardinality(May(i)) \in Nat
                        /\ Cardinality(Owing(i)) \in Nat /\ Cardinality(Rows) \in Nat)'
        BY AccountTypes, PTL
    <3> QED BY <3>1, AccountTypes DEF Jobs
  <2>3. /\ Cardinality(May(i)') <= Cardinality(May(i))
        /\ Cardinality(Owing(i)') <= Cardinality(Owing(i))
        /\ Cardinality(Rows) <= Cardinality(Rows')
      BY <2>1, <2>2, JobSubset
  <2>4. Account(i) /\ scores'[i] = scores[i]
      BY DEF OnceInv
  <2> QED BY <2>2, <2>3, <2>4 DEF Account
<1> QED BY <1>1, Zenon DEF OnceInv, Jobs

Balanced(s, b, a, r, f) == 2 * s + b + a <= 2 * r + f

\* A fault, a new row or the right of j to score record i pays for what j may score
\* afterwards.
Paid(j, i) ==
    \/ /\ scores'[i] = scores[i] /\ faults' = faults + 1
       /\ (MayScore(j, i)' => MayScore(j, i)) \/ (Owes(j, i)' => Owes(j, i))
    \/ /\ scores'[i] = scores[i] /\ faults' >= faults
       /\ (MayScore(j, i)' => MayScore(j, i)) /\ (Owes(j, i)' => Owes(j, i))
    \/ /\ scores'[i] = scores[i] /\ faults' = faults
       /\ row[j] = NoRow /\ row'[j] # NoRow
    \/ /\ scores'[i] = scores[i] + 1 /\ faults' = faults
       /\ MayScore(j, i) /\ ~MayScore(j, i)' /\ ~Owes(j, i)'

\* A step that concerns job j only, and is paid.
LEMMA PaidStep ==
    ASSUME TypeOK, TypeOK', OnceInv, NEW j \in Jobs,
           \A k \in Jobs : FreshOK(k)' /\ (row[k] # NoRow => row'[k] # NoRow),
           \A i \in 1..MaxRecords : \A k \in Jobs \ {j} :
               (MayScore(k, i)' => MayScore(k, i)) /\ (Owes(k, i)' => Owes(k, i)),
           \A i \in 1..MaxRecords : Paid(j, i)
    PROVE  OnceInv'
<1>1. ASSUME NEW i \in 1..MaxRecords PROVE Account(i)'
  <2> DEFINE B == May(i)
             A == Owing(i)
             R == Rows
             B2 == May(i)'
             A2 == Owing(i)'
             R2 == Rows'
  <2>1. /\ B2 \subseteq B \cup {j} /\ A2 \subseteq A \cup {j} /\ R \subseteq R2
        /\ (MayScore(j, i)' => MayScore(j, i)) => B2 \subseteq B
        /\ (Owes(j, i)' => Owes(j, i)) => A2 \subseteq A
        /\ row[j] = NoRow /\ row'[j] # NoRow => j \in R2 /\ R \subseteq R2 \ {j}
        /\ MayScore(j, i) => j \in B /\ j \in A
        /\ ~MayScore(j, i)' => B2 \subseteq B \ {j}
        /\ ~Owes(j, i)' => A2 \subseteq A \ {j}
    <3>1. /\ B2 \subseteq B \cup {j} /\ A2 \subseteq A \cup {j} /\ R \subseteq R2
        BY DEF May, Owing, Rows, Jobs
    <3>2. (MayScore(j, i)' => MayScore(j, i)) => B2 \subseteq B
        BY DEF May, Jobs
    <3>3. (Owes(j, i)' => Owes(j, i)) => A2 \subseteq A
        BY DEF Owing, Jobs
    <3>4. row[j] = NoRow /\ row'[j] # NoRow => j \in R2 /\ R \subseteq R2 \ {j}
        BY Zenon DEF Rows, Jobs
    <3>5. MayScore(j, i) => j \in B /\ j \in A
        BY Zenon DEF May, Owing, Owes
    <3>6. ~MayScore(j, i)' => B2 \subseteq B \ {j}
        BY DEF May, Jobs
    <3>7. ~Owes(j, i)' => A2 \subseteq A \ {j}
        BY Zenon DEF Owing, Jobs
    <3> QED BY <3>1, <3>2, <3>3, <3>4, <3>5, <3>6, <3>7, Zenon
  <2>2. /\ scores[i] \in Nat /\ faults \in Nat /\ faults' \in Nat
        /\ A \in SUBSET Jobs /\ B \in SUBSET Jobs /\ R \in SUBSET Jobs
        /\ A2 \in SUBSET Jobs /\ B2 \in SUBSET Jobs /\ R2 \in SUBSET Jobs
        /\ Cardinality(A) \in Nat /\ Cardinality(B) \in Nat /\ Cardinality(R) \in Nat
        /\ Cardinality(A2) \in Nat /\ Cardinality(B2) \in Nat /\ Cardinality(R2) \in Nat
    <3>1. /\ (TypeOK => /\ faults \in Nat /\ May(i) \in SUBSET Jobs /\ Owing(i) \in SUBSET Jobs
                        /\ Rows \in SUBSET Jobs /\ Cardinality(May(i)) \in Nat
                        /\ Cardinality(Owing(i)) \in Nat /\ Cardinality(Rows) \in Nat)'
        BY AccountTypes, PTL
    <3> QED BY <3>1, AccountTypes DEF Jobs
  <2>3. Balanced(scores[i], Cardinality(B), Cardinality(A), Cardinality(R), faults)
      BY Zenon DEF OnceInv, Account, Balanced
  <2> HIDE DEF A, B, R, A2, B2, R2
  <2>4. /\ Cardinality(B2) <= Cardinality(B) + 1 /\ Cardinality(A2) <= Cardinality(A) + 1
        /\ Cardinality(R) <= Cardinality(R2)
        /\ B2 \subseteq B => Cardinality(B2) <= Cardinality(B)
        /\ A2 \subseteq A => Cardinality(A2) <= Cardinality(A)
        /\ j \in R2 /\ R \subseteq R2 \ {j} => Cardinality(R) <= Cardinality(R2) - 1
        /\ j \in B /\ B2 \subseteq B \ {j} => Cardinality(B2) <= Cardinality(B) - 1
        /\ j \in A /\ A2 \subseteq A \ {j} => Cardinality(A2) <= Cardinality(A) - 1
    <3>1. Cardinality(B2) <= Cardinality(B) + 1 /\ Cardinality(A2) <= Cardinality(A) + 1
        BY <2>1, <2>2, JobCounts, Zenon
    <3>2. /\ Cardinality(R) <= Cardinality(R2)
          /\ B2 \subseteq B => Cardinality(B2) <= Cardinality(B)
          /\ A2 \subseteq A => Cardinality(A2) <= Cardinality(A)
        BY <2>1, <2>2, JobSubset, Zenon
    <3>3. /\ j \in R2 /\ R \subseteq R2 \ {j} => Cardinality(R) <= Cardinality(R2) - 1
          /\ j \in B /\ B2 \subseteq B \ {j} => Cardinality(B2) <= Cardinality(B) - 1
          /\ j \in A /\ A2 \subseteq A \ {j} => Cardinality(A2) <= Cardinality(A) - 1
        BY <2>2, JobCounts, Zenon
    <3> QED BY <3>1, <3>2, <3>3, Zenon
  <2>5. Balanced(scores'[i], Cardinality(B2), Cardinality(A2), Cardinality(R2), faults')
    <3>1. CASE /\ scores'[i] = scores[i] /\ faults' = faults + 1
               /\ (MayScore(j, i)' => MayScore(j, i)) \/ (Owes(j, i)' => Owes(j, i))
      <4>1. Cardinality(B2) <= Cardinality(B) \/ Cardinality(A2) <= Cardinality(A)
          BY <2>1, <2>4, <3>1, Zenon
      <4> QED BY <2>2, <2>3, <2>4, <3>1, <4>1 DEF Balanced
    <3>2. CASE /\ scores'[i] = scores[i] /\ faults' >= faults
               /\ (MayScore(j, i)' => MayScore(j, i)) /\ (Owes(j, i)' => Owes(j, i))
      <4>1. Cardinality(B2) <= Cardinality(B) /\ Cardinality(A2) <= Cardinality(A)
          BY <2>1, <2>4, <3>2, Zenon
      <4> QED BY <2>2, <2>3, <2>4, <3>2, <4>1 DEF Balanced
    <3>3. CASE scores'[i] = scores[i] /\ faults' = faults /\ row[j] = NoRow /\ row'[j] # NoRow
      <4>1. Cardinality(R) <= Cardinality(R2) - 1
          BY <2>1, <2>4, <3>3, Zenon
      <4> QED BY <2>2, <2>3, <2>4, <3>3, <4>1 DEF Balanced
    <3>4. CASE /\ scores'[i] = scores[i] + 1 /\ faults' = faults
               /\ MayScore(j, i) /\ ~MayScore(j, i)' /\ ~Owes(j, i)'
      <4>1. Cardinality(B2) <= Cardinality(B) - 1 /\ Cardinality(A2) <= Cardinality(A) - 1
          BY <2>1, <2>4, <3>4, Zenon
      <4> QED BY <2>2, <2>3, <2>4, <3>4, <4>1 DEF Balanced
    <3> QED BY <3>1, <3>2, <3>3, <3>4, Zenon DEF Paid
  <2> QED BY <2>5, Zenon DEF Account, Balanced, A2, B2, R2
<1> QED BY <1>1, Zenon DEF OnceInv, Jobs

\* The same for a step of the thread of j.
LEMMA ThreadStep ==
    ASSUME TypeOK, TypeOK', OnceInv, NEW j \in Jobs, UNCHANGED req,
           \A k \in Jobs \ {j} : row'[k] = row[k] /\ worker'[k] = worker[k],
           FreshOK(j)', row'[j] = row[j] \/ row'[j].status # "NONE",
           \A i \in 1..MaxRecords :
               \/ /\ scores'[i] = scores[i] /\ faults' = faults + 1
                  /\ (MayScore(j, i)' => MayScore(j, i)) \/ (Owes(j, i)' => Owes(j, i))
               \/ /\ scores'[i] = scores[i] /\ faults' >= faults
                  /\ (MayScore(j, i)' => MayScore(j, i)) /\ (Owes(j, i)' => Owes(j, i))
               \/ /\ scores'[i] = scores[i] + 1 /\ faults' = faults
                  /\ MayScore(j, i) /\ ~MayScore(j, i)' /\ ~Owes(j, i)'
    PROVE  OnceInv'
<1>1. ASSUME NEW k \in Jobs PROVE FreshOK(k)' /\ (row[k] # NoRow => row'[k] # NoRow)
  <2>1. CASE k = j
      BY <2>1 DEF NoRow
  <2>2. CASE k # j
      BY <2>2 DEF OnceInv, FreshOK
  <2> QED BY <2>1, <2>2, Zenon
<1>2. ASSUME NEW i \in 1..MaxRecords, NEW k \in Jobs \ {j}
      PROVE  (MayScore(k, i)' => MayScore(k, i)) /\ (Owes(k, i)' => Owes(k, i))
  <2>1. row'[k] = row[k] /\ worker'[k] = worker[k] /\ (StartRequested(k)' => StartRequested(k))
      BY Zenon DEF StartRequested
  <2> QED BY <2>1, Zenon DEF MayScore, Owes, Position
<1>3. \A i \in 1..MaxRecords : Paid(j, i)
    BY Zenon DEF Paid
<1> QED BY <1>1, <1>2, <1>3, PaidStep, Zenon

\* A thread that does not score, before and after: its row keeps its progress, and is as
\* it was or has ended.
LEMMA OutsideStep ==
    ASSUME TypeOK, TypeOK', OnceInv, NEW j \in Jobs, UNCHANGED <<req, scores>>, faults' >= faults,
           \A k \in Jobs \ {j} : row'[k] = row[k] /\ worker'[k] = worker[k],
           worker[j].pc \notin Scoring, worker'[j].pc \notin Scoring,
           worker'[j].pc \in Starting => worker[j].pc \in Starting,
           row'[j] = row[j] \/ row'[j].status \in Terminal,
           worker'[j].pc \in {"count", "claim", "recheck"} => worker'[j].last = row'[j].last
    PROVE  OnceInv'
<1>1. FreshOK(j)'
    BY DEF FreshOK, Scoring
<1>2. row'[j] = row[j] \/ row'[j].status \notin {"NONE", "PENDING", "RUNNING"}
    BY DEF Terminal
<1>3. StartRequested(j)' => StartRequested(j)
    BY Zenon DEF StartRequested
<1>4. ASSUME NEW i \in 1..MaxRecords
      PROVE  (MayScore(j, i)' => MayScore(j, i)) /\ (Owes(j, i)' => Owes(j, i))
    BY <1>2, <1>3, Zenon DEF MayScore, Owes
<1> QED BY <1>1, <1>2, <1>4, ThreadStep, Zenon

\* What Goto, Leave and Local leave in the threads.
LEMMA ThreadResults ==
    ASSUME TypeOK, NEW j \in Jobs
    PROVE  /\ \A p : Goto(j, p) => /\ worker'[j].pc = p /\ worker'[j].last = worker[j].last
                                   /\ worker'[j].n = worker[j].n
           /\ \A p : Leave(j, p) => worker'[j].pc = p
           /\ \A p, t, d, l : Local(j, p, t, d, l) => worker'[j].pc = p /\ worker'[j].last = l
           /\ (\E p : Goto(j, p) \/ Leave(j, p) \/ \E t, d, l : Local(j, p, t, d, l))
              => \A k \in Jobs \ {j} : worker'[k] = worker[k]
<1>1. worker \in [Jobs -> WorkerType] /\ worker[j] \in WorkerType
    BY DEF TypeOK, WorkerType
<1>2. ASSUME NEW p, Goto(j, p)
      PROVE  /\ worker'[j].pc = p /\ worker'[j].last = worker[j].last
             /\ worker'[j].n = worker[j].n /\ \A k \in Jobs \ {j} : worker'[k] = worker[k]
    BY <1>1, <1>2 DEF Goto, WorkerType
<1>3. ASSUME NEW p, Leave(j, p)
      PROVE  worker'[j].pc = p /\ \A k \in Jobs \ {j} : worker'[k] = worker[k]
    BY <1>1, <1>3 DEF Leave, NoWorker
<1>4. ASSUME NEW p, NEW t, NEW d, NEW l, Local(j, p, t, d, l)
      PROVE  /\ worker'[j].pc = p /\ worker'[j].last = l
             /\ \A k \in Jobs \ {j} : worker'[k] = worker[k]
    BY <1>1, <1>4, Zenon DEF Local
<1> QED BY <1>2, <1>3, <1>4, Zenon

\* What UpdateScoreJob leaves in the rows.
LEMMA RowResults ==
    ASSUME TypeOK, NEW j \in Jobs, NEW s, NEW t, NEW d, NEW l, UpdateScoreJob(j, s, t, d, l)
    PROVE  /\ \A k \in Jobs \ {j} : row'[k] = row[k]
           /\ \/ faults' = faults /\ row'[j].status = s /\ row'[j].last = l
              \/ faults' = faults + 1 /\ row' = row
BY DEF TypeOK, UpdateScoreJob, Executed, Failed

\* A thread on its way to the claim, or past its work.
LEMMA OnceOutside ==
    ASSUME TypeOK, TypeOK', OnceInv, NEW j \in Jobs,
           \/ Load(j) \/ CountRecords(j) \/ CatchRead(j) \/ CatchReport(j)
           \/ (Claim(j) /\ Goto(j, "recheck") /\ UNCHANGED row)
           \/ (Recheck(j) /\ (Leave(j, "done") \/ Leave(j, "fail")))
    PROVE  OnceInv'
<1>1. FreshOK(j) /\ faults \in Nat /\ worker[j] \in WorkerType
    BY JobTypes, ScoreJobAssumption DEF OnceInv, TypeOK
<1>2. ASSUME Executed \/ Failed PROVE faults' >= faults
    BY <1>1, <1>2 DEF Executed, Failed
<1> USE DEF Scoring, Starting
<1>3. CASE Load(j)
  <2>1. /\ worker'[j].pc \in {"count", "fail"} /\ \A k \in Jobs \ {j} : worker'[k] = worker[k]
        /\ worker'[j].pc = "count" => worker'[j].last = row[j].last
    <3>1. CASE Local(j, "count", row[j].total, row[j].processed, row[j].last)
      <4>1. /\ worker'[j].pc = "count" /\ worker'[j].last = row[j].last
            /\ \A k \in Jobs \ {j} : worker'[k] = worker[k]
        <5>1. worker'[j].pc = "count" /\ worker'[j].last = row[j].last
            BY <3>1, ThreadResults, ZenonT(30)
        <5>2. \A k \in Jobs \ {j} : worker'[k] = worker[k]
            BY <3>1, ThreadResults, ZenonT(30)
        <5> QED BY <5>1, <5>2
      <4> QED BY <4>1, Zenon
    <3>2. CASE Leave(j, "fail")
        BY <3>2, ThreadResults, ZenonT(30)
    <3> QED BY <1>3, <3>1, <3>2, Zenon DEF Load
  <2>2. faults' >= faults /\ worker[j].pc = "load" /\ UNCHANGED <<row, req, scores>>
      BY <1>2, <1>3 DEF Load
  <2> QED BY <2>1, <2>2, OutsideStep, ZenonT(30)
<1>4. CASE CountRecords(j)
  <2>1. CASE Executed /\ worker' = [worker EXCEPT ![j].pc = "claim", ![j].total = records]
    <3>1. /\ worker'[j].pc = "claim" /\ worker'[j].last = worker[j].last
          /\ \A k \in Jobs \ {j} : worker'[k] = worker[k]
        BY <1>1, <2>1 DEF TypeOK, WorkerType
    <3> QED BY <1>1, <1>2, <1>4, <2>1, <3>1, OutsideStep, ZenonT(30) DEF CountRecords, FreshOK
  <2>2. CASE Failed /\ Leave(j, "fail")
      BY <1>2, <1>4, <2>2, ThreadResults, OutsideStep, Zenon DEF CountRecords
  <2> QED BY <1>4, <2>1, <2>2 DEF CountRecords
<1>5. CASE CatchRead(j)
  <2>1. worker'[j].pc \in {"report", "done"} /\ \A k \in Jobs \ {j} : worker'[k] = worker[k]
    <3>1. CASE Local(j, "report", row[j].total, row[j].processed, row[j].last)
        BY <3>1, ThreadResults, ZenonT(30)
    <3>2. CASE Leave(j, "done")
        BY <3>2, ThreadResults, ZenonT(30)
    <3> QED BY <1>5, <3>1, <3>2, Zenon DEF CatchRead
  <2>2. faults' >= faults /\ worker[j].pc = "fail" /\ UNCHANGED <<row, req, scores>>
      BY <1>2, <1>5, Zenon DEF CatchRead
  <2> QED BY <2>1, <2>2, OutsideStep, Zenon
<1>6. CASE CatchReport(j)
  <2>1. /\ \A k \in Jobs \ {j} : row'[k] = row[k]
        /\ faults' = faults \/ faults' = faults + 1
        /\ row'[j] = row[j] \/ row'[j].status = "FAILED"
      BY <1>6, RowResults, Zenon DEF CatchReport
  <2>2. worker'[j].pc = "done" /\ \A k \in Jobs \ {j} : worker'[k] = worker[k]
      BY <1>6, ThreadResults, Zenon DEF CatchReport
  <2>3. faults' >= faults
      BY <1>1, <2>1
  <2>4. /\ worker[j].pc = "report" /\ UNCHANGED <<req, scores>>
        /\ row'[j] = row[j] \/ row'[j].status \in Terminal
      BY <1>6, <2>1, Zenon DEF CatchReport, Terminal
  <2> QED BY <2>1, <2>2, <2>3, <2>4, OutsideStep
<1>7. CASE Claim(j) /\ Goto(j, "recheck") /\ UNCHANGED row
  <2>1. /\ worker'[j].pc = "recheck" /\ worker'[j].last = worker[j].last
        /\ \A k \in Jobs \ {j} : worker'[k] = worker[k]
      BY <1>7, ThreadResults, Zenon
  <2>2. worker[j].last = row[j].last /\ faults' >= faults
      BY <1>1, <1>2, <1>7, Zenon DEF Claim, FreshOK
  <2> QED BY <1>7, <2>1, <2>2, OutsideStep DEF Claim
<1>8. CASE Recheck(j) /\ (Leave(j, "done") \/ Leave(j, "fail"))
  <2>1. worker'[j].pc \in {"done", "fail"} /\ \A k \in Jobs \ {j} : worker'[k] = worker[k]
      BY <1>8, ThreadResults, Zenon
  <2>2. faults' >= faults
      BY <1>2, <1>8, Zenon DEF Recheck
  <2> QED BY <1>8, <2>1, <2>2, OutsideStep, Zenon DEF Recheck
<1> QED BY <1>3, <1>4, <1>5, <1>6, <1>7, <1>8, Zenon

\* A thread that claims its job goes on from the progress of the row.
LEMMA OnceClaim ==
    ASSUME TypeOK, TypeOK', OnceInv, NEW j \in Jobs, Goto(j, "announce"), Claim(j) \/ Recheck(j)
    PROVE  OnceInv'
<1>1. /\ FreshOK(j) /\ faults \in Nat /\ worker[j] \in WorkerType /\ row[j] \in RowType
    BY JobTypes, ScoreJobAssumption DEF OnceInv, TypeOK
<1>2. /\ worker'[j].pc = "announce" /\ worker'[j].last = worker[j].last
      /\ \A k \in Jobs \ {j} : worker'[k] = worker[k]
    BY ThreadResults, Zenon
<1>3. worker[j].pc \in {"claim", "recheck"} /\ worker[j].last = row[j].last
    BY <1>1 DEF Claim, Recheck, FreshOK
<1>4. /\ \A k \in Jobs \ {j} : row'[k] = row[k]
      /\ row'[j].last = row[j].last /\ row'[j].status = "RUNNING"
      /\ row[j].status \in {"PENDING", "RUNNING"} /\ UNCHANGED <<req, scores, faults>>
  <2>1. CASE Claim(j)
    <3>1. /\ row[j].status = "PENDING" /\ row' = [row EXCEPT ![j].status = "RUNNING"]
          /\ UNCHANGED faults
        BY <1>2, <2>1, ThreadResults DEF Claim, Executed
    <3> QED BY <1>1, <2>1, <3>1, Zenon DEF Claim, TypeOK, RowType
  <2>2. CASE Recheck(j)
      BY <1>2, <2>2, ThreadResults, Zenon DEF Recheck, Executed
  <2> QED BY <2>1, <2>2, Zenon
<1>5. FreshOK(j)'
    BY <1>2, <1>3, <1>4 DEF FreshOK
<1>6. ASSUME NEW i \in 1..MaxRecords
      PROVE  (MayScore(j, i)' => MayScore(j, i)) /\ (Owes(j, i)' => Owes(j, i))
  <2>1. row[j].last \in Nat /\ i \in Nat
      BY <1>1, ScoreJobAssumption DEF RowType, Count
  <2> QED BY <1>2, <1>3, <1>4, <2>1, Zenon DEF MayScore, Owes, Position, Scoring, Starting
<1>7. faults' >= faults
    BY <1>1, <1>4
<1> QED BY <1>4, <1>2, <1>5, <1>6, <1>7, ThreadStep, Zenon

\* A thread that goes on scoring from the same position.
LEMMA OnceGoesOn ==
    ASSUME TypeOK, TypeOK', OnceInv, NEW j \in Jobs, UNCHANGED <<req, scores>>, faults' >= faults,
           \A k \in Jobs \ {j} : row'[k] = row[k] /\ worker'[k] = worker[k],
           worker[j].pc \in Scoring, worker'[j].pc \in {"model", "fetch", "insert", "end"},
           worker'[j].last = Position(worker[j]),
           worker'[j].pc = "model" => row'[j].last = worker'[j].last,
           \/ row'[j] = row[j] /\ (worker[j].pc = "advance" => faults' = faults + 1)
           \/ row'[j].status = "RUNNING" /\ row'[j].last = worker'[j].last
    PROVE  OnceInv'
<1>1. /\ FreshOK(j) /\ worker[j] \in WorkerType /\ row[j] \in RowType /\ faults \in Nat
    BY JobTypes, ScoreJobAssumption DEF OnceInv, TypeOK
<1>2. FreshOK(j)'
    BY <1>1, Zenon DEF FreshOK, Scoring
<1>3. row'[j] = row[j] \/ row'[j].status # "NONE"
    BY Zenon
<1>4. ASSUME NEW i \in 1..MaxRecords
      PROVE  /\ MayScore(j, i)' => MayScore(j, i)
             /\ (Owes(j, i)' => Owes(j, i)) \/ faults' = faults + 1
  <2>1. /\ row[j].last \in Nat /\ worker[j].last \in Nat /\ worker[j].n \in Nat /\ i \in Nat
      BY <1>1, ScoreJobAssumption, SMTT(30) DEF RowType, WorkerType, Count
  <2>2. MayScore(j, i)' => MayScore(j, i)
      BY <2>1, Zenon DEF MayScore, Position, Scoring
  <2>3. CASE row'[j] = row[j] /\ worker[j].pc # "advance"
      BY <2>1, <2>2, <2>3, Zenon DEF Owes, Position
  <2>4. CASE row'[j].last = worker'[j].last
    <3>1. row'[j].last \in Nat
        BY <2>1, <2>4, SMTT(30) DEF Position
    <3>2. Owes(j, i)' => MayScore(j, i)'
        BY <2>1, <2>4, <3>1 DEF Owes
    <3> QED BY <2>2, <3>2, Zenon DEF Owes
  <2> QED BY <2>2, <2>3, <2>4, Zenon
<1> QED BY <1>2, <1>3, <1>4, ThreadStep, ZenonT(30)

\* The order of the numbers that the positions are compared by.
LEMMA TotalOrder ==
    \A m, n \in Nat : m >= m /\ (m > n \/ m <= n)
OBVIOUS

\* A thread that stops scoring: what its row does not know is paid for by the fault, and a
\* row that has ended is not scored again.
LEMMA OnceStops ==
    ASSUME TypeOK, TypeOK', OnceInv, NEW j \in Jobs, UNCHANGED <<req, scores>>,
           \A k \in Jobs \ {j} : row'[k] = row[k] /\ worker'[k] = worker[k],
           worker[j].pc \in Scoring \ {"advance"}, worker'[j].pc \in {"fail", "done"},
           \/ faults' = faults + 1 /\ row'[j] = row[j]
           \/ faults' = faults /\ row'[j] = row[j] /\ worker[j].pc = "model"
           \/ faults' = faults /\ row'[j].status \in Terminal
    PROVE  OnceInv'
<1>1. /\ FreshOK(j) /\ worker[j] \in WorkerType /\ row[j] \in RowType /\ faults \in Nat
    BY JobTypes, ScoreJobAssumption DEF OnceInv, TypeOK
<1>2. FreshOK(j)'
    BY Zenon DEF FreshOK, Scoring
<1>3. row'[j] = row[j] \/ row'[j].status \notin {"NONE", "PENDING", "RUNNING"}
    BY DEF Terminal
<1>4. ASSUME NEW i \in 1..MaxRecords
      PROVE  /\ Owes(j, i)' => Owes(j, i)
             /\ (MayScore(j, i)' => MayScore(j, i)) \/ faults' = faults + 1
  <2>1. /\ row[j].last \in Nat /\ worker[j].last \in Nat /\ i \in Nat
      BY <1>1, ScoreJobAssumption DEF RowType, WorkerType, Count
  <2>2. /\ Owes(j, i)' => MayScore(j, i)'
        /\ MayScore(j, i)' => row'[j] = row[j] /\ row[j].last < i
      BY <1>1, <1>3, ZenonT(30) DEF Owes, MayScore, FreshOK, Scoring
  <2>3. row[j].last < i => Owes(j, i)
      BY <2>1, TotalOrder, ZenonT(30) DEF Owes, MayScore, Position
  <2>4. CASE worker[j].pc = "model"
      BY <1>1, <2>1, <2>2, <2>4, ZenonT(30) DEF FreshOK, MayScore, Position, Owes
  <2>5. CASE faults' = faults /\ row'[j].status \in Terminal
    <3>1. ~MayScore(j, i)'
        BY <2>5, Zenon DEF MayScore, Scoring, Starting, Terminal
    <3> QED BY <2>2, <3>1, Zenon
  <2> QED BY <2>2, <2>3, <2>4, <2>5, ZenonT(30)
<1>5. faults' = faults + 1 \/ faults' >= faults
    BY <1>1, TotalOrder, Zenon
<1> QED BY <1>2, <1>3, <1>4, <1>5, ThreadStep, Zenon

\* A committed batch uses up the right of its job to score these records.
LEMMA OnceInsert ==
    ASSUME TypeOK, TypeOK', OnceInv, NEW j \in Jobs, InsertScores(j)
    PROVE  OnceInv'
<1>1. /\ FreshOK(j) /\ worker[j] \in WorkerType /\ row[j] \in RowType /\ faults \in Nat
      /\ worker[j].pc = "insert" /\ UNCHANGED <<row, req>>
  <2>1. FreshOK(j) /\ worker[j] \in WorkerType /\ row[j] \in RowType
      BY JobTypes, Zenon DEF OnceInv
  <2>2. faults \in Nat
      BY ScoreJobAssumption DEF TypeOK
  <2>3. worker[j].pc = "insert" /\ UNCHANGED <<row, req>>
      BY Zenon DEF InsertScores
  <2> QED BY <2>1, <2>2, <2>3
<1>2. CASE Failed /\ Leave(j, "fail") /\ UNCHANGED scores
  <2>1. /\ worker'[j].pc = "fail" /\ (\A k \in Jobs \ {j} : worker'[k] = worker[k])
        /\ faults' = faults + 1
      BY <1>2, ThreadResults, Zenon DEF Failed
  <2> QED BY <1>1, <1>2, <2>1, OnceStops, Zenon DEF Scoring
<1>3. CASE /\ Executed /\ Goto(j, "advance")
           /\ scores' = [i \in 1..MaxRecords |-> scores[i] +
                          (IF i \in (worker[j].last + 1)..(worker[j].last + worker[j].n) THEN 1 ELSE 0)]
  <2>1. /\ worker'[j].pc = "advance" /\ worker'[j].last = worker[j].last
        /\ worker'[j].n = worker[j].n /\ (\A k \in Jobs \ {j} : worker'[k] = worker[k])
        /\ faults' = faults
      BY <1>3, ThreadResults, Zenon DEF Executed
  <2>2. FreshOK(j)'
      BY <1>1, <2>1, Zenon DEF FreshOK, Scoring
  <2>3. ASSUME NEW i \in 1..MaxRecords
        PROVE  \/ /\ scores'[i] = scores[i]
                  /\ (MayScore(j, i)' => MayScore(j, i)) /\ (Owes(j, i)' => Owes(j, i))
               \/ /\ scores'[i] = scores[i] + 1
                  /\ MayScore(j, i) /\ ~MayScore(j, i)' /\ ~Owes(j, i)'
    <3>1. /\ row[j].last \in Nat /\ worker[j].last \in Nat /\ worker[j].n \in Nat /\ i \in Nat
          /\ scores[i] \in Nat
        BY <1>1, ScoreJobAssumption DEF RowType, WorkerType, Count, TypeOK
    <3>2. /\ MayScore(j, i) <=> i > worker[j].last
          /\ MayScore(j, i)' <=> i > worker[j].last + worker[j].n
        BY <1>1, <2>1, Zenon DEF MayScore, Position, Scoring
    <3>3. CASE i \in (worker[j].last + 1)..(worker[j].last + worker[j].n)
      <4>1. scores'[i] = scores[i] + 1
          BY <1>3, <3>3, Zenon
      <4> QED BY <2>1, <3>1, <3>2, <3>3, <4>1, SMTT(30) DEF Owes
    <3>4. CASE i \notin (worker[j].last + 1)..(worker[j].last + worker[j].n)
      <4>1. scores'[i] = scores[i]
          BY <1>3, <3>1, <3>4
      <4> QED BY <1>1, <2>1, <3>1, <3>2, <3>4, <4>1 DEF Owes, Scoring
    <3> QED BY <3>3, <3>4, Zenon
  <2>4. row'[j] = row[j] /\ faults' >= faults
      BY <1>1, <2>1
  <2> QED BY <1>1, <2>1, <2>2, <2>3, <2>4, ThreadStep, Zenon
<1> QED BY <1>2, <1>3, Zenon DEF InsertScores

\* Every step of the thread of a job.
LEMMA OnceThread ==
    ASSUME TypeOK, TypeOK', OnceInv, NEW j \in Jobs, ScoreDataset(j)
    PROVE  OnceInv'
<1>1. /\ FreshOK(j) /\ worker[j] \in WorkerType /\ row[j] \in RowType /\ faults \in Nat
    BY JobTypes, ScoreJobAssumption DEF OnceInv, TypeOK
<1>2. CASE Load(j) \/ CountRecords(j) \/ CatchRead(j) \/ CatchReport(j)
    BY <1>2, OnceOutside
<1>3. CASE Claim(j) \/ Recheck(j)
    BY <1>3, OnceOutside, OnceClaim, Zenon DEF Claim, Recheck
<1>4. CASE Announce(j)
  <2>1. /\ worker'[j].pc = "model" /\ worker'[j].last = worker[j].last
        /\ \A k \in Jobs \ {j} : worker'[k] = worker[k]
      BY <1>4, ThreadResults, Zenon DEF Announce
  <2>2. /\ \A k \in Jobs \ {j} : row'[k] = row[k]
        /\ \/ faults' = faults /\ row'[j].status = "RUNNING" /\ row'[j].last = worker[j].last
           \/ faults' = faults + 1 /\ row' = row
      BY <1>4, RowResults, Zenon DEF Announce
  <2>3. /\ worker[j].pc = "announce" /\ worker[j].last = row[j].last /\ UNCHANGED <<req, scores>>
        /\ faults' >= faults /\ worker'[j].last = Position(worker[j])
      BY <1>1, <1>4, <2>1, <2>2 DEF Announce, FreshOK, Position
  <2> QED BY <2>1, <2>2, <2>3, OnceGoesOn, Zenon DEF Scoring
<1>5. CASE LoadModel(j)
  <2>1. /\ \/ worker'[j].pc = "fetch" /\ worker'[j].last = worker[j].last
           \/ worker'[j].pc = "fail"
        /\ \A k \in Jobs \ {j} : worker'[k] = worker[k]
      BY <1>5, ThreadResults, Zenon DEF LoadModel
  <2>2. worker[j].pc = "model" /\ UNCHANGED <<row, req, scores, faults>> /\ faults' >= faults
      BY <1>1, <1>5 DEF LoadModel
  <2>3. CASE worker'[j].pc = "fetch" /\ worker'[j].last = worker[j].last
    <3>1. worker'[j].last = Position(worker[j])
        BY <2>2, <2>3, Zenon DEF Position
    <3> QED BY <2>1, <2>2, <2>3, <3>1, OnceGoesOn, Zenon DEF Scoring
  <2>4. CASE worker'[j].pc = "fail"
      BY <2>1, <2>2, <2>4, OnceStops, Zenon DEF Scoring
  <2> QED BY <2>1, <2>3, <2>4, Zenon
<1>6. CASE Fetch(j)
  <2>1. worker[j].pc = "fetch" /\ UNCHANGED <<row, req, scores>>
      BY <1>6, Zenon DEF Fetch
  <2>2. CASE Failed /\ Leave(j, "fail")
    <3>1. /\ worker'[j].pc = "fail" /\ (\A k \in Jobs \ {j} : worker'[k] = worker[k])
          /\ faults' = faults + 1
        BY <2>2, ThreadResults, Zenon DEF Failed
    <3> QED BY <2>1, <3>1, OnceStops, Zenon DEF Scoring
  <2>3. CASE /\ Executed
             /\ \/ Goto(j, "end")
                \/ worker' = [worker EXCEPT ![j].pc = "insert", ![j].n = RowsAfter(worker[j].last)]
    <3>1. /\ worker'[j].pc \in {"insert", "end"} /\ worker'[j].last = worker[j].last
          /\ \A k \in Jobs \ {j} : worker'[k] = worker[k]
      <4>1. CASE Goto(j, "end")
          BY <4>1, ThreadResults
      <4>2. CASE worker' = [worker EXCEPT ![j].pc = "insert", ![j].n = RowsAfter(worker[j].last)]
          BY <1>1, <4>2 DEF TypeOK, WorkerType
      <4> QED BY <2>3, <4>1, <4>2, Zenon
    <3>2. worker'[j].last = Position(worker[j]) /\ faults' >= faults
        BY <1>1, <2>1, <2>3, <3>1 DEF Position, Executed
    <3> QED BY <2>1, <3>1, <3>2, OnceGoesOn, Zenon DEF Scoring
  <2> QED BY <1>6, <2>2, <2>3 DEF Fetch
<1>7. CASE InsertScores(j)
    BY <1>7, OnceInsert, Zenon
<1>8. CASE Advance(j)
  <2>1. /\ worker'[j].pc = "fetch" /\ worker'[j].last = worker[j].last + worker[j].n
        /\ \A k \in Jobs \ {j} : worker'[k] = worker[k]
    <3>1. Local(j, "fetch", worker[j].total, worker[j].processed + worker[j].n,
                worker[j].last + worker[j].n)
        BY <1>8 DEF Advance
    <3> QED BY <3>1, Zenon DEF Local, TypeOK
  <2>2. /\ \A k \in Jobs \ {j} : row'[k] = row[k]
        /\ \/ /\ faults' = faults /\ row'[j].status = "RUNNING"
              /\ row'[j].last = worker[j].last + worker[j].n
           \/ faults' = faults + 1 /\ row' = row
      BY <1>8, RowResults, ZenonT(30) DEF Advance
  <2>3. /\ worker[j].pc = "advance" /\ UNCHANGED <<req, scores>>
        /\ faults' >= faults /\ worker'[j].last = Position(worker[j])
    <3>1. worker[j].pc = "advance" /\ UNCHANGED <<req, scores>>
        BY <1>8, Zenon DEF Advance
    <3>2. faults' >= faults
        BY <1>1, <2>2
    <3>3. worker'[j].last = Position(worker[j])
        BY <2>1, <3>1, Zenon DEF Position
    <3> QED BY <3>1, <3>2, <3>3
  <2> QED BY <2>1, <2>2, <2>3, OnceGoesOn, Zenon DEF Scoring
<1>9. CASE End(j)
  <2>1. worker'[j].pc = "done" /\ \A k \in Jobs \ {j} : worker'[k] = worker[k]
      BY <1>9, ThreadResults, Zenon DEF End
  <2> DEFINE s == IF stop_flag[j] THEN "CANCELLED" ELSE "COMPLETED"
  <2>2. UpdateScoreJob(j, s, worker[j].total, worker[j].processed, worker[j].last)
      BY <1>9, Zenon DEF End
  <2>3. s \in Terminal
      BY Zenon DEF Terminal
  <2> HIDE DEF s
  <2>4. /\ \A k \in Jobs \ {j} : row'[k] = row[k]
        /\ \/ faults' = faults /\ row'[j].status \in Terminal
           \/ faults' = faults + 1 /\ row' = row
      BY <2>2, <2>3, RowResults, Zenon
  <2>5. worker[j].pc = "end" /\ UNCHANGED <<req, scores>>
      BY <1>9, Zenon DEF End
  <2> QED BY <2>1, <2>4, <2>5, OnceStops, Zenon DEF Scoring
<1> QED BY <1>2, <1>3, <1>4, <1>5, <1>6, <1>7, <1>8, <1>9, Zenon DEF ScoreDataset

\* A step of the requests, the reconciler or the process: threads that score go on as they
\* were or end with the process, and no row becomes active.
LEMMA OnceElsewhere ==
    ASSUME TypeOK, TypeOK', OnceInv, UNCHANGED scores, faults' >= faults,
           \A k \in Jobs :
               /\ row'[k] = row[k] \/ (row[k].status \in Active /\ row'[k].status = "FAILED"
                                       /\ row'[k].last = row[k].last)
               /\ worker'[k] = worker[k] \/ (worker'[k] = NoWorker /\ ~StartRequested(k)')
               /\ row'[k].status = "RUNNING" /\ StartRequested(k)' => StartRequested(k)
    PROVE  OnceInv'
<1>1. ASSUME NEW k \in Jobs
      PROVE  /\ FreshOK(k)' /\ (row[k] # NoRow => row'[k] # NoRow)
             /\ \A i \in 1..MaxRecords :
                   (MayScore(k, i)' => MayScore(k, i)) /\ (Owes(k, i)' => Owes(k, i))
  <2>1. FreshOK(k) /\ NoWorker.pc = "none" /\ row'[k].last = row[k].last
      BY Zenon DEF OnceInv, NoWorker
  <2>2. row[k] # NoRow => row'[k] # NoRow
      BY DEF NoRow
  <2>3. FreshOK(k)'
      BY <2>1, Zenon DEF FreshOK, Scoring
  <2>4. ASSUME NEW i \in 1..MaxRecords
        PROVE  (MayScore(k, i)' => MayScore(k, i)) /\ (Owes(k, i)' => Owes(k, i))
    <3>1. CASE worker'[k] = worker[k]
        BY <2>1, <3>1, Zenon DEF MayScore, Owes, Position
    <3>2. CASE worker'[k] = NoWorker /\ ~StartRequested(k)'
        BY <2>1, <3>2, Zenon DEF MayScore, Owes, FreshOK, Scoring, Starting
    <3> QED BY <3>1, <3>2, Zenon
  <2> QED BY <2>2, <2>3, <2>4, Zenon
<1> QED BY <1>1, QuietStep, Zenon

\* With the process its threads and requests end.
LEMMA OnceDeath ==
    ASSUME TypeOK, TypeOK', OnceInv, ProcessDies, Executed \/ Failed
    PROVE  OnceInv'
<1>1. faults' >= faults
    BY ScoreJobAssumption DEF TypeOK, Executed, Failed
<1>2. \A q \in Requests : req'[q].pc # "start"
    BY Zenon DEF ProcessDies, NoRequest
<1>3. /\ UNCHANGED <<row, scores>>
      /\ \A k \in Jobs : worker'[k] = NoWorker /\ ~StartRequested(k)'
    BY <1>2, Zenon DEF ProcessDies, StartRequested
<1> QED BY <1>1, <1>3, OnceElsewhere, Zenon

\* The reconciler fails rows and keeps their progress.
LEMMA OnceReconcile ==
    ASSUME TypeOK, TypeOK', OnceInv, NEW S, ReconcileStaleJobs(S), UNCHANGED <<scores, req, worker>>
    PROVE  OnceInv'
<1>1. faults' >= faults
    BY ScoreJobAssumption DEF TypeOK, Executed, Failed, ReconcileStaleJobs
<1>2. ASSUME NEW k \in Jobs
      PROVE  row'[k] = row[k] \/ (row[k].status \in Active /\ row'[k].status = "FAILED"
                                  /\ row'[k].last = row[k].last)
  <2>1. row[k] \in RowType
      BY JobTypes
  <2>2. CASE UNCHANGED row
      BY <2>2
  <2>3. CASE row' = [j \in Jobs |-> IF j \in {i \in S : row[i].status \in Active}
                                    THEN [row[j] EXCEPT !.status = "FAILED"] ELSE row[j]]
      BY <2>1, <2>3, Zenon DEF RowType
  <2> QED BY <2>2, <2>3, Zenon DEF ReconcileStaleJobs
<1>3. \A k \in Jobs : StartRequested(k)' => StartRequested(k)
    BY DEF StartRequested
<1> QED BY <1>1, <1>2, <1>3, OnceElsewhere, Zenon

\* Every step of a request.
LEMMA OnceRequest ==
    ASSUME TypeOK, TypeOK', OnceInv, NEW q \in Requests, HandleScoreDatasetJob(q)
    PROVE  OnceInv'
<1>1. faults \in Nat /\ req \in [Requests -> [pc : {"new", "insert", "get", "start", "answered"},
                                              job : Jobs \cup {0}]]
    BY ScoreJobAssumption DEF TypeOK
<1>2. ASSUME Executed \/ Failed PROVE faults' >= faults
    BY <1>1, <1>2 DEF Executed, Failed
<1>3. ASSUME req'[q].pc # "start", \A p \in Requests \ {q} : req'[p] = req[p]
      PROVE  \A k : StartRequested(k)' => StartRequested(k)
    BY <1>3 DEF StartRequested
<1>4. ASSUME Answer(q) PROVE \A k : StartRequested(k)' => StartRequested(k)
  <2>1. req'[q].pc # "start" /\ \A p \in Requests \ {q} : req'[p] = req[p]
      BY <1>1, <1>4, Zenon DEF Answer
  <2> QED BY <1>3, <2>1, Zenon
<1>5. CASE CheckExists(q)
  <2>1. req'[q].pc # "start" /\ \A p \in Requests \ {q} : req'[p] = req[p]
    <3>1. CASE Answer(q)
        BY <1>1, <3>1 DEF Answer
    <3>2. CASE req' = [req EXCEPT ![q].pc = "insert"]
        BY <1>1, <3>2, Zenon
    <3>3. CASE \E j \in Jobs : req' = [req EXCEPT ![q] = [pc |-> "get", job |-> j]]
        BY <1>1, <3>3
    <3> QED BY <1>5, <3>1, <3>2, <3>3, Zenon DEF CheckExists
  <2>2. /\ faults' >= faults /\ \A k : StartRequested(k)' => StartRequested(k)
        /\ UNCHANGED <<row, worker, scores>>
      BY <1>2, <1>3, <1>5, <2>1, Zenon DEF CheckExists
  <2> QED BY <2>2, OnceElsewhere
<1>6. CASE GetJob(q)
  <2>1. /\ faults' >= faults /\ UNCHANGED <<row, worker, scores>>
      BY <1>2, <1>6, Zenon DEF GetJob
  <2>2. CASE Answer(q)
      BY <1>4, <2>1, <2>2, OnceElsewhere, Zenon
  <2>3. CASE /\ row[req[q].job].status \notin {"RUNNING", "COMPLETED"}
             /\ req' = [req EXCEPT ![q].pc = "start"]
    <3>1. req'[q].job = req[q].job /\ \A p \in Requests \ {q} : req'[p] = req[p]
        BY <1>1, <2>3, Zenon
    <3>2. ASSUME NEW k \in Jobs
          PROVE  row'[k].status = "RUNNING" /\ StartRequested(k)' => StartRequested(k)
        BY <2>1, <2>3, <3>1, Zenon DEF StartRequested
    <3> QED BY <2>1, <3>2, OnceElsewhere, Zenon
  <2> QED BY <1>6, <2>2, <2>3, Zenon DEF GetJob
<1>7. CASE StartJobRejected(q)
  <2>1. /\ faults' >= faults /\ UNCHANGED <<row, worker, scores>> /\ Answer(q)
      BY <1>1, <1>7 DEF StartJobRejected
  <2> QED BY <1>4, <2>1, OnceElsewhere, Zenon
<1>8. CASE InsertJob(q)
  <2>1. CASE Failed /\ Answer(q) /\ UNCHANGED row
    <3>1. faults' >= faults /\ UNCHANGED <<worker, scores>>
        BY <1>2, <1>8, <2>1, Zenon DEF InsertJob
    <3> QED BY <1>4, <2>1, <3>1, OnceElsewhere, Zenon
  <2>2. ASSUME NEW j \in Jobs, Executed, row[j] = NoRow, row' = [row EXCEPT ![j].status = "PENDING"],
               req' = [req EXCEPT ![q] = [pc |-> "get", job |-> j]]
        PROVE  OnceInv'
    <3>1. /\ row'[j].status = "PENDING" /\ row'[j].last = row[j].last
          /\ \A k \in Jobs \ {j} : row'[k] = row[k]
        BY <2>2 DEF TypeOK, NoRow
    <3>2. UNCHANGED <<worker, scores, faults>>
        BY <1>8, <2>2, Zenon DEF InsertJob, Executed
    <3>3. \A k : StartRequested(k)' => StartRequested(k)
      <4>1. req'[q].pc # "start" /\ \A p \in Requests \ {q} : req'[p] = req[p]
          BY <1>1, <2>2, Zenon
      <4> QED BY <1>3, <4>1
    <3>4. ASSUME NEW k \in Jobs PROVE FreshOK(k)' /\ (row[k] # NoRow => row'[k] # NoRow)
      <4>1. CASE k = j
        <5>1. row[j].status = "NONE" /\ row'[j] # NoRow
            BY <2>2, <3>1 DEF NoRow
        <5>2. FreshOK(j)
            BY Zenon DEF OnceInv
        <5> QED BY <3>1, <3>2, <4>1, <5>1, <5>2, Zenon DEF FreshOK
      <4>2. CASE k # j
          BY <3>1, <3>2, <4>2, Zenon DEF OnceInv, FreshOK
      <4> QED BY <4>1, <4>2, Zenon
    <3>5. ASSUME NEW i \in 1..MaxRecords, NEW k \in Jobs \ {j}
          PROVE  (MayScore(k, i)' => MayScore(k, i)) /\ (Owes(k, i)' => Owes(k, i))
        BY <3>1, <3>2, <3>3, Zenon DEF MayScore, Owes, Position
    <3>6. row[j] = NoRow /\ row'[j] # NoRow
        BY <2>2, <3>1 DEF NoRow
    <3>7. \A i \in 1..MaxRecords : Paid(j, i)
        BY <3>2, <3>6, Zenon DEF Paid
    <3> QED BY <3>4, <3>5, <3>7, PaidStep, Zenon
  <2> QED BY <1>8, <2>1, <2>2, Zenon DEF InsertJob
<1>9. CASE StartJob(q)
  <2> DEFINE j == req[q].job
  <2>1. /\ req[q].pc = "start" /\ j \notin Live /\ UNCHANGED <<row, scores, faults>> /\ Answer(q)
        /\ worker' = [worker EXCEPT ![j] = [NoWorker EXCEPT !.pc = "load"]]
      BY <1>9 DEF StartJob
  <2>2. faults' >= faults /\ \A k : StartRequested(k)' => StartRequested(k)
      BY <1>1, <1>4, <2>1
  <2>3. ASSUME NEW k \in Jobs
        PROVE  /\ FreshOK(k)'
               /\ \A i \in 1..MaxRecords :
                     (MayScore(k, i)' => MayScore(k, i)) /\ (Owes(k, i)' => Owes(k, i))
    <3>1. CASE k = j
      <4>1. worker'[k].pc = "load"
          BY <2>1, <3>1, Zenon DEF TypeOK, NoWorker
      <4>2. StartRequested(k) /\ worker[k].pc \notin Scoring
          BY <2>1, <3>1, Zenon DEF StartRequested, Live, Scoring, WorkerPc
      <4>3. FreshOK(k)'
          BY <4>1 DEF FreshOK, Scoring
      <4> QED BY <2>1, <4>1, <4>2, <4>3, Zenon DEF MayScore, Owes, Scoring
    <3>2. CASE k # j
      <4>1. worker'[k] = worker[k]
          BY <2>1, <3>2, Zenon DEF TypeOK
      <4> QED BY <2>1, <2>2, <4>1, Zenon DEF OnceInv, FreshOK, MayScore, Owes, Position
    <3> QED BY <3>1, <3>2, Zenon
  <2> QED BY <2>1, <2>2, <2>3, QuietStep
<1>10. CASE StartJobTwice(q)
    BY <1>10, OnceDeath DEF StartJobTwice
<1> QED BY <1>5, <1>6, <1>7, <1>8, <1>9, <1>10, Zenon DEF HandleScoreDatasetJob

\* No record is scored before there is a job.
LEMMA OnceInit == ASSUME Init PROVE OnceInv
<1>1. TypeOK
    BY InitInv, Zenon DEF IInv
<1>2. ASSUME NEW j \in Jobs
      PROVE  FreshOK(j) /\ \A i \in 1..MaxRecords : ~MayScore(j, i) /\ ~Owes(j, i)
  <2>1. row[j].status = "NONE" /\ worker[j].pc = "none"
      BY DEF Init, NoRow, NoWorker
  <2> QED BY <2>1, Zenon DEF FreshOK, MayScore, Owes, Scoring
<1>3. ASSUME NEW i \in 1..MaxRecords PROVE Account(i)
  <2>1. May(i) = {} /\ Owing(i) = {}
      BY <1>2 DEF May, Owing
  <2>2. Cardinality({}) = 0 /\ scores[i] = 0 /\ faults = 0 /\ Cardinality(Rows) \in Nat
      BY <1>1, AccountTypes, FS_EmptySet DEF Init
  <2> QED BY <2>1, <2>2 DEF Account
<1> QED BY <1>2, <1>3, Zenon DEF OnceInv

\* Every step keeps the accounts.
LEMMA OnceNext == ASSUME IInv, IInv', OnceInv, [Next]_vars PROVE OnceInv'
<1> USE DEF IInv
<1>1. ASSUME UNCHANGED <<row, worker, req, scores, faults>> PROVE OnceInv'
  <2>1. faults' >= faults
      BY <1>1, ScoreJobAssumption DEF TypeOK
  <2>2. \A k \in Jobs : StartRequested(k)' => StartRequested(k)
      BY <1>1, Zenon DEF StartRequested
  <2> QED BY <1>1, <2>1, <2>2, OnceElsewhere, Zenon
<1>2. ASSUME NEW q \in Requests, HandleScoreDatasetJob(q) PROVE OnceInv'
    BY <1>2, OnceRequest, Zenon
<1>3. ASSUME NEW j \in Jobs, ScoreDataset(j) PROVE OnceInv'
    BY <1>3, OnceThread
<1>4. ASSUME NEW j \in Jobs, NEW p \in {"", "score-"}, DeleteJob(p, j) PROVE OnceInv'
    BY <1>1, <1>4, ZenonT(30) DEF DeleteJob
<1>5. CASE AppendRecord \/ Restart \/ UNCHANGED vars
    BY <1>1, <1>5, Zenon DEF AppendRecord, Restart, vars
<1>6. ASSUME NEW S \in SUBSET Jobs, RunSweep(S) PROVE OnceInv'
    BY <1>6, OnceReconcile, Zenon DEF RunSweep
<1>7. CASE Crash
    BY <1>7, OnceDeath, Zenon DEF Crash
<1>8. CASE ReconcileStartup
    BY <1>8, OnceReconcile, Zenon DEF ReconcileStartup
<1> QED BY <1>2, <1>3, <1>4, <1>5, <1>6, <1>7, <1>8, ZenonT(30) DEF Next

-----------------------------------------------------------------------------
(* Theorems *)

\* In every reachable state the row and the thread of each job satisfy JobOK.
THEOREM Invariance == Spec => []IInv
<1>1. Init => IInv
    BY InitInv
<1>2. IInv /\ [Next]_vars => IInv'
    BY NextInv
<1> QED
    BY <1>1, <1>2, PTL DEF Spec

\* The progress in a row is backed by dataset_scores, and a COMPLETED job has scored at
\* least the records it counted.
THEOREM ProgressHolds == Spec => []ProgressInv
<1>1. IInv => ProgressInv
  <2> SUFFICES ASSUME IInv PROVE ProgressInv
      BY Zenon
  <2>1. ProgressIsBacked
      BY Zenon DEF IInv, JobOK, RowOK, Backed, ProgressIsBacked
  <2>2. CompletedIsComplete
    <3> SUFFICES ASSUME NEW j \in Jobs, row[j].status = "COMPLETED"
                 PROVE  /\ row[j].total <= row[j].last
                        /\ \A i \in 1..row[j].total : scores[i] > 0
        BY Zenon DEF CompletedIsComplete
    <3>1. row[j].total \in Count /\ row[j].last \in Count
        BY DEF IInv, TypeOK
    <3> QED
        BY <3>1, ScoreJobAssumption DEF IInv, JobOK, RowOK, Backed, Count
  <2> QED
      BY <2>1, <2>2 DEF IInv, ProgressInv
<1> QED
    BY <1>1, Invariance, PTL

\* A record is scored at most once per job row and once more for every two faults,
\* however jobs are requested, refused, restarted and swept.
THEOREM ScoredOnce == Spec => []ScoredOncePerJob
<1>1. IInv /\ OnceInv => ScoredOncePerJob
  <2> SUFFICES ASSUME IInv, OnceInv, NEW i \in 1..MaxRecords
               PROVE  scores[i] <= Cardinality({j \in Jobs : row[j] # NoRow}) + faults \div 2
      BY Zenon DEF ScoredOncePerJob
  <2>1. /\ scores[i] \in Nat /\ faults \in Nat /\ Cardinality(May(i)) \in Nat
        /\ Cardinality(Owing(i)) \in Nat /\ Cardinality(Rows) \in Nat
      BY AccountTypes DEF IInv
  <2>2. 2 * scores[i] + Cardinality(May(i)) + Cardinality(Owing(i)) <= 2 * Cardinality(Rows) + faults
      BY DEF OnceInv, Account
  <2>3. scores[i] <= Cardinality(Rows) + faults \div 2
      BY <2>1, <2>2
  <2> QED BY <2>3 DEF Rows
<1>2. Init => OnceInv
    BY OnceInit
<1>3. IInv /\ IInv' /\ OnceInv /\ [Next]_vars => OnceInv'
    BY OnceNext
<1> QED BY <1>1, <1>2, <1>3, Invariance, PTL DEF Spec

\* A row that has ended is changed only by the live thread of its own job, and one that
\* is COMPLETED or CANCELLED at worst to FAILED, with its progress kept.
THEOREM OnlyItsJobRevives == Spec => RevivedOnlyByItsJob
<1>1. ASSUME IInv, [Next]_vars
      PROVE  [\A j \in Jobs : row[j].status \in Terminal /\ row'[j] # row[j] =>
                /\ j \in Live
                /\ row[j].status # "FAILED" => row'[j] = [row[j] EXCEPT !.status = "FAILED"]]_vars
  <2> SUFFICES ASSUME Next, NEW j \in Jobs, row[j].status \in Terminal, row'[j] # row[j]
               PROVE  /\ j \in Live
                      /\ row[j].status # "FAILED" => row'[j] = [row[j] EXCEPT !.status = "FAILED"]
      BY <1>1
  <2> USE DEF Terminal, Active, Jobs
  <2>1. ASSUME NEW q \in Requests, HandleScoreDatasetJob(q) PROVE FALSE
    <3>1. CASE InsertJob(q)
      <4>1. PICK k \in Jobs : row[k] = NoRow /\ row' = [row EXCEPT ![k].status = "PENDING"]
          BY <3>1 DEF InsertJob
      <4>2. row[j].status # "NONE"
          OBVIOUS
      <4>3. k # j
          BY <4>1, <4>2 DEF NoRow
      <4> QED BY <1>1, <4>1, <4>3, Zenon DEF IInv, TypeOK
    <3>2. CASE row' = row
        BY <3>2
    <3> QED BY <2>1, <3>1, <3>2, Zenon
            DEF HandleScoreDatasetJob, CheckExists, GetJob, StartJob, StartJobRejected,
                StartJobTwice, ProcessDies
  <2>2. ASSUME NEW k \in Jobs, Claim(k) PROVE FALSE
      BY <1>1, <2>2, Zenon DEF IInv, TypeOK, Claim
  <2>3. ASSUME NEW k \in Jobs, NEW s, NEW t, NEW p, NEW l, UpdateScoreJob(k, s, t, p, l)
        PROVE  k = j /\ row'[j] = [status |-> s, total |-> t, processed |-> p, last |-> l]
      BY <1>1, <2>3, Zenon DEF IInv, TypeOK, UpdateScoreJob
  <2>4. ASSUME NEW k \in Jobs, Announce(k) \/ Advance(k) \/ End(k)
        PROVE  k = j /\ worker[j].pc \in Scoring
      BY <2>3, <2>4, Zenon DEF Announce, Advance, End, Scoring
  <2>5. ASSUME NEW k \in Jobs, CatchReport(k)
        PROVE  /\ k = j /\ worker[j].pc = "report"
               /\ row'[j] = [row[j] EXCEPT !.status = "FAILED"]
    <3>1. k = j /\ row'[j] = [status |-> "FAILED", total |-> worker[j].total,
                              processed |-> worker[j].processed, last |-> worker[j].last]
      <4>1. UpdateScoreJob(k, "FAILED", worker[k].total, worker[k].processed, worker[k].last)
          BY <2>5, Zenon DEF CatchReport
      <4>2. k = j /\ row'[j] = [status |-> "FAILED", total |-> worker[k].total,
                                processed |-> worker[k].processed, last |-> worker[k].last]
          BY <2>3, <4>1, Zenon
      <4> QED BY <4>2, Zenon
    <3>2. worker[j].pc = "report"
        BY <2>5, <3>1 DEF CatchReport
    <3> QED
        BY <1>1, <3>1, <3>2 DEF IInv, TypeOK, JobOK, OwnerOK
  <2>6. ASSUME NEW k \in Jobs, ScoreDataset(k)
        PROVE  /\ j \in Live
               /\ row[j].status # "FAILED" => row'[j] = [row[j] EXCEPT !.status = "FAILED"]
    <3>1. CASE Announce(k) \/ Advance(k) \/ End(k)
        BY <1>1, <2>4, <3>1, Zenon DEF IInv, JobOK, OwnerOK, Live, WorkerPc, Scoring
    <3>2. CASE CatchReport(k)
        BY <2>5, <3>2, Zenon DEF Live, WorkerPc
    <3>3. CASE \/ Load(k) \/ CountRecords(k) \/ Recheck(k) \/ LoadModel(k) \/ Fetch(k)
               \/ InsertScores(k) \/ CatchRead(k)
        BY <3>3 DEF Load, CountRecords, Recheck, LoadModel, Fetch, InsertScores, CatchRead
    <3> QED
        BY <2>2, <2>6, <3>1, <3>2, <3>3, Zenon DEF ScoreDataset
  <2>7. ASSUME NEW S, ReconcileStaleJobs(S) PROVE FALSE
      BY <1>1, <2>7, Zenon DEF IInv, TypeOK, ReconcileStaleJobs
  <2> QED
      BY <2>1, <2>6, <2>7, Zenon
      DEF Next, DeleteJob, AppendRecord, RunSweep, Crash, ProcessDies, Restart, ReconcileStartup
<1> QED
    BY <1>1, Invariance, PTL DEF Spec, RevivedOnlyByItsJob
=============================================================================

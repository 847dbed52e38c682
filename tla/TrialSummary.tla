---------------------------- MODULE TrialSummary ----------------------------
(***************************************************************************)
(* What GET /models/:id and GET /models derive from the trials of a tuning *)
(* run (ApiServer::HandleGetModelDetail and HandleListModels).             *)
(*                                                                         *)
(* A trial is [status, is_eligible, metric, completed_at]; the trials of a *)
(* run come as a sequence in the order of trial_index, as GetHpoTrials     *)
(* returns them.  A metric of -1 is a null selection_metric_value.         *)
(***************************************************************************)
EXTENDS Integers, Sequences, FiniteSets, Functions

TrialRows == Seq([status : STRING, is_eligible : BOOLEAN, metric : Int, completed_at : Int])

NoBest == 0
Throws == -1        \* get<double>() of a null: the request answers 500
Candidate(t) == t.status = "COMPLETED" /\ t.is_eligible

\* Faulty variant: on a tie the trial seen last wins.
BetterLast(trials, i, best) == best = NoBest \/ trials[i].metric <= trials[best].metric

\* The lower threshold; then the earlier completion; then the lower index.
Better(trials, i, best) ==
    \/ best = NoBest
    \/ trials[i].metric < trials[best].metric
    \/ /\ trials[i].metric = trials[best].metric
       /\ \/ trials[i].completed_at < trials[best].completed_at
          \/ trials[i].completed_at = trials[best].completed_at /\ i < best

\* One round of the loop over the trials.
VisitTrial(trials, best, i) ==
    IF best = Throws \/ ~Candidate(trials[i]) THEN best
    ELSE IF trials[i].metric = -1 THEN Throws
    ELSE IF Better(trials, i, best) THEN i ELSE best

\* The loop: the index of the best trial.
BestTrial(trials) ==
    LET best[k \in 0..Len(trials)] ==
          IF k = 0 THEN NoBest ELSE VisitTrial(trials, best[k - 1], k)
    IN  best[Len(trials)]

Counted(trials, s) == Cardinality({i \in DOMAIN trials : trials[i].status = s})

\* The status shown for a run whose own row says row_status, from the counts of its
\* trials by status.
Aggregate(count, row_status) ==
    CASE count["RUNNING"] > 0 \/ count["PENDING"] > 0 -> "RUNNING"
      [] count["RUNNING"] + count["PENDING"] = 0 /\ count["COMPLETED"] > 0 -> "COMPLETED"
      [] count["RUNNING"] + count["PENDING"] + count["COMPLETED"] = 0 /\ count["FAILED"] > 0 -> "FAILED"
      [] OTHER -> row_status

StatusKeys == {"PENDING", "RUNNING", "COMPLETED", "FAILED"}

DetailStatus(trials, row_status) ==
    Aggregate([s \in StatusKeys |-> Counted(trials, s)], row_status)

\* Faulty variant: a row overwrites what earlier rows of the parent have set.
SummaryOverwritten(sum, row) ==
    [sum EXCEPT ![row[1]] = [s \in StatusKeys |-> IF s = row[2] THEN row[3] ELSE 0]]

\* One row <<parent, status, count>> of the GROUP BY is added to the counts.
AddSummaryRow(sum, row) == [sum EXCEPT ![row[1]][row[2]] = @ + row[3]]

\* One round of the loop over the rows.  A status that the object has no entry for
\* throws and ends the loop, after the parent has got its object.
VisitSummaryRow(acc, row) ==
    IF acc.thrown THEN acc
    ELSE [thrown |-> row[2] \notin StatusKeys,
          seen |-> acc.seen \cup {row[1]},
          sum |-> IF row[2] \in StatusKeys THEN AddSummaryRow(acc.sum, row) ELSE acc.sum]

NoSummaries(parents) ==
    [thrown |-> FALSE, seen |-> {}, sum |-> [p \in parents |-> [s \in StatusKeys |-> 0]]]

\* The loop, in the order in which the database returns the rows.
GetBulkHpoTrialSummaries(parents, rows) ==
    LET acc[k \in 0..Len(rows)] ==
          IF k = 0 THEN NoSummaries(parents) ELSE VisitSummaryRow(acc[k - 1], rows[k])
    IN  acc[Len(rows)]

\* What the list shows for each parent: runs without a summary keep their status.
ListStatus(summaries, p, row_status) ==
    IF p \in summaries.seen THEN Aggregate(summaries.sum[p], row_status) ELSE row_status

-----------------------------------------------------------------------------
(* Properties *)

\* Trial i does not rank after trial k: by threshold, completion time and index.
NotAfter(trials, i, k) ==
    \/ trials[i].metric < trials[k].metric
    \/ /\ trials[i].metric = trials[k].metric
       /\ \/ trials[i].completed_at < trials[k].completed_at
          \/ trials[i].completed_at = trials[k].completed_at /\ i <= k

\* The best of a set of trials; a candidate without a metric makes the request fail.
BestOf(trials, S, best) ==
    LET candidates == {i \in S : Candidate(trials[i])}
    IN  IF candidates = {} THEN best = NoBest
        ELSE IF \E i \in candidates : trials[i].metric = -1 THEN best = Throws
        ELSE best \in candidates /\ \A i \in candidates : NotAfter(trials, best, i)

\* HandleGetModelDetail reports the best of all trials, in whatever order they ended.
LeastReported(trials) == BestOf(trials, DOMAIN trials, BestTrial(trials))

\* How many trials of parent p have status s, and the rows of the GROUP BY.
WithStatus(trials, p, s) == Cardinality({i \in DOMAIN trials[p] : trials[p][i] = s})
GroupedRows(trials) ==
    {r \in {<<p, s, WithStatus(trials, p, s)>> : p \in DOMAIN trials, s \in StatusKeys} : r[3] > 0}
DetailRows(statuses) ==
    [i \in DOMAIN statuses |-> [status |-> statuses[i], is_eligible |-> TRUE, metric |-> 1,
                                completed_at |-> 1]]

\* The list of the models shows for every parent the status that its detail page
\* shows, in whatever order the rows arrive, as long as no trial is CANCELLED.
ListAgrees(trials, row_status) ==
    \A rows \in Injection(1..Cardinality(GroupedRows(trials)), GroupedRows(trials)) :
        \A p \in DOMAIN trials :
            ListStatus(GetBulkHpoTrialSummaries(DOMAIN trials, rows), p, row_status)
              = DetailStatus(DetailRows(trials[p]), row_status)
=============================================================================

----------------------------- MODULE MCScoreJob -----------------------------
(* Instances of ScoreJob for TLC. *)
EXTENDS ScoreJob

\* The row of a live job grows older than the TTL of ten minutes while the job scores
\* and inserts a batch, for which it sends no heartbeat.
SweptWhileBusy ==
    \A j \in Live : row[j].status \in Active /\ row'[j].status = "FAILED" /\ UNCHANGED worker
        => worker[j].pc = "insert"
=============================================================================

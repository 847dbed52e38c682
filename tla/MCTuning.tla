------------------------------ MODULE MCTuning ------------------------------
(***************************************************************************)
(* Tuning with a grid of 2 x 2 candidates, cut to two trials, of which one *)
(* may run at a time; one crash, refused start or failing statement.  The  *)
(* pure functions for all small inputs.                                    *)
(***************************************************************************)
EXTENDS TuningReports, SequencesExt

MCHpo == [algorithm |-> "grid", max_trials |-> 2, max_concurrency |-> 1, seed |-> 0,
          n_components |-> <<2, 3>>, percentile |-> <<9900, 9950>>]

\* Every way to be refused, and for one value of max_concurrency every small grid.
MCConfigs ==
    [algorithm : {"grid", "random"}, max_trials : {0, 1, 3, 4, 51}, max_concurrency : {1},
     seed : {0}, n_components : BoundedSeq({2, 3, 6}, 2), percentile : BoundedSeq({4999, 9900, 9950}, 2)]
    \cup [algorithm : {"grid", "random"}, max_trials : {3, 51}, max_concurrency : {0, 10},
          seed : {0}, n_components : BoundedSeq({2, 6}, 1), percentile : BoundedSeq({9900}, 1)]

MCTrialLists ==
    BoundedSeq([status : {"RUNNING", "COMPLETED", "CANCELLED"}, is_eligible : BOOLEAN,
                metric : {-1, 1, 2}, completed_at : {1, 2}], 2)
    \cup SeqOf([status : {"COMPLETED"}, is_eligible : {TRUE}, metric : {1, 2},
                completed_at : {1, 2}], 3)

MCStatusLists == BoundedSeq(StatusKeys, 2)
=============================================================================

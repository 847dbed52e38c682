--------------------------- MODULE TuningReports ----------------------------
(***************************************************************************)
(* What a client is told about a tuning run before and after it: the       *)
(* preflight answer of POST /train and the trials that GET /models shows.  *)
(* The functions of HpoConfig and TrialSummary are compared with what they *)
(* are meant to compute for all inputs of the given sets, once, before the *)
(* request is submitted.                                                   *)
(***************************************************************************)
EXTENDS Tuning, TrialSummary

CONSTANTS
    Configs,        \* hpo_configs
    TrialLists,     \* lists of the trials of a run
    Parents,        \* tuning runs of one page of the list of models
    StatusLists     \* lists of the status of the trials of a run

ASSUME ReportsAssumption ==
    /\ Configs \subseteq HpoConfigs
    /\ TrialLists \subseteq TrialRows
    /\ IsFiniteSet(Parents)
    /\ StatusLists \subseteq Seq(StatusKeys)

Unsubmitted == orch = NoOrch /\ faults = 0

\* The number of trials that the preflight check of HandleTrainModel promises is the
\* number that GenerateTrials produces, for every configuration that is accepted, and a
\* grid that is not cut leaves out no candidate.
PreflightIsExact == Unsubmitted =>
    \A hpo \in Configs : /\ PreflightExact(hpo, [i \in 1..hpo.max_trials |-> <<1, 1>>])
                         /\ GridComplete(hpo)

\* Two accepted grids with the same candidate fingerprint have the same candidates,
\* unless max_trials cuts them: the order of the search space is not hashed.
FingerprintFixesCandidates == Unsubmitted => \A h1, h2 \in Configs : SameCandidates(h1, h2)

\* The best trial reported is the least of the eligible completed ones by threshold,
\* completion time and index; one of them without a metric makes the request fail.
BestTrialIsLeast == Unsubmitted => \A trials \in TrialLists : LeastReported(trials)

\* As long as no trial is CANCELLED, the list of the models shows for every tuning
\* run the status that its detail page shows, in whatever order the counts arrive.
ListAgreesWithDetail == Unsubmitted =>
    \A trials \in [Parents -> StatusLists], row_status \in Active \cup Terminal :
        ListAgrees(trials, row_status)

\* The candidates are as many as the preflight announces and, unless they are cut, the
\* ones that the fingerprint stands for (PreflightHpoConfig, GenerateTrials,
\* ComputeCandidateFingerprint).
CandidatesAsAnnounced == PreflightIsExact /\ FingerprintFixesCandidates

\* GET /models and GET /models/:id summarise the trials correctly and alike.
TrialsSummarised == BestTrialIsLeast /\ ListAgreesWithDetail
=============================================================================

----------------------------- MODULE HpoConfig ------------------------------
(***************************************************************************)
(* The pure functions on a tuning request of src/training/pca_trainer.cpp: *)
(* validation, preflight, generation of the trials and the fingerprint.    *)
(*                                                                         *)
(* A configuration is a record [algorithm, max_trials, max_concurrency,    *)
(* seed, n_components, percentile]; the two search spaces are sequences,   *)
(* percentiles are given in hundredths.                                    *)
(***************************************************************************)
EXTENDS Sequences, FiniteSetsExt, Sorting

Clamp(x, lo, hi) == IF x < lo THEN lo ELSE IF x > hi THEN hi ELSE x

NSpace(hpo) == IF hpo.n_components = <<>> THEN <<3>> ELSE hpo.n_components
PSpace(hpo) == IF hpo.percentile = <<>> THEN <<9950>> ELSE hpo.percentile
Combinations(hpo) == Len(NSpace(hpo)) * Len(PSpace(hpo))

\* The fields that are reported as invalid.
ValidateHpoConfig(hpo) ==
    LET Bad(cond, field) == IF cond THEN {field} ELSE {}
    IN  UNION {
          Bad(hpo.algorithm \notin {"grid", "random"}, "algorithm"),
          Bad(hpo.max_trials \notin 1..50, "max_trials"),
          Bad(hpo.max_concurrency \notin 1..10, "max_concurrency"),
          Bad(hpo.n_components = <<>> /\ hpo.percentile = <<>>, "search_space"),
          Bad(\E i \in DOMAIN hpo.n_components : hpo.n_components[i] \notin 1..5,
              "search_space.n_components"),
          Bad(\E i \in DOMAIN hpo.percentile : hpo.percentile[i] \notin 5000..9999,
              "search_space.percentile"),
          Bad(hpo.algorithm = "grid" /\ Combinations(hpo) > 100, "search_space") }

\* Faulty variant: max_trials is forgotten.
PreflightUncapped(hpo) ==
    LET total == IF hpo.algorithm = "grid" THEN Combinations(hpo) ELSE hpo.max_trials
    IN  [estimated |-> total, effective |-> total, capped_by |-> "NONE"]

PreflightHpoConfig(hpo) ==
    LET total == IF hpo.algorithm = "grid" THEN Combinations(hpo) ELSE hpo.max_trials
        capped_by == IF hpo.algorithm # "grid" THEN "NONE"
                     ELSE IF total > 100 THEN "GRID_CAP"
                     ELSE IF total > hpo.max_trials THEN "MAX_TRIALS" ELSE "NONE"
    IN  [estimated |-> total, capped_by |-> capped_by,
         effective |-> CASE capped_by = "GRID_CAP" -> 100
                         [] capped_by = "MAX_TRIALS" -> hpo.max_trials
                         [] OTHER -> total]

Trial(hpo, n, p) == [n_components |-> NSpace(hpo)[n], percentile |-> PSpace(hpo)[p]]

\* The grid in the order of the two nested loops, cut after max_trials; the random
\* algorithm draws max_trials pairs of positions.
GenerateTrials(hpo, draws) ==
    LET P == Len(PSpace(hpo))
    IN  IF hpo.algorithm = "grid"
        THEN [i \in 1..Min({Combinations(hpo), hpo.max_trials}) |->
                Trial(hpo, ((i - 1) \div P) + 1, ((i - 1) % P) + 1)]
        ELSE [i \in 1..hpo.max_trials |-> Trial(hpo, draws[i][1], draws[i][2])]

\* Faulty variant: the percentiles are not hashed.
FingerprintOfComponents(hpo) ==
    [hpo EXCEPT !.max_concurrency = Clamp(@, 1, 10),
                !.n_components = Sorted(@), !.percentile = <<>>]

\* What is hashed: the configuration with both search spaces sorted.
ComputeCandidateFingerprint(hpo) ==
    [hpo EXCEPT !.max_concurrency = Clamp(@, 1, 10),
                !.n_components = Sorted(@), !.percentile = Sorted(@)]

-----------------------------------------------------------------------------
(* Properties *)

HpoConfigs == [algorithm : STRING, max_trials : Int, max_concurrency : Int, seed : Int,
               n_components : Seq(Int), percentile : Seq(Int)]

\* PreflightHpoConfig promises the number of trials that GenerateTrials produces, and
\* says so when it is not the size of the search space.
PreflightExact(hpo, draws) ==
    ValidateHpoConfig(hpo) = {} =>
        LET pre == PreflightHpoConfig(hpo)
        IN  /\ pre.effective = Len(GenerateTrials(hpo, draws))
            /\ pre.capped_by = "NONE" <=> pre.effective = pre.estimated

Pairs(N, P) == {[n_components |-> n, percentile |-> p] : n \in N, p \in P}

\* A grid that is not cut tries every pair of the search space.
GridComplete(hpo) ==
    hpo.algorithm = "grid" /\ PreflightHpoConfig(hpo).capped_by = "NONE" =>
        Range(GenerateTrials(hpo, <<>>)) = Pairs(Range(NSpace(hpo)), Range(PSpace(hpo)))

\* Two accepted grids with the same candidate fingerprint have the same candidates,
\* unless max_trials cuts them: the order of the search space is not hashed.
SameCandidates(h1, h2) ==
    LET Uncut(hpo) == /\ hpo.algorithm = "grid" /\ ValidateHpoConfig(hpo) = {}
                      /\ PreflightHpoConfig(hpo).capped_by = "NONE"
    IN  Uncut(h1) /\ Uncut(h2) /\ ComputeCandidateFingerprint(h1) = ComputeCandidateFingerprint(h2)
        => Range(GenerateTrials(h1, <<>>)) = Range(GenerateTrials(h2, <<>>))
=============================================================================

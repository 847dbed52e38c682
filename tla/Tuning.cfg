SPECIFICATION FairSpec
CONSTANTS
    Hpo <- MCHpo
    MaxFaults = 1
    Configs <- MCConfigs
    TrialLists <- MCTrialLists
    Parents = {"p", "q"}
    StatusLists <- MCStatusLists
INVARIANTS TrialsInv CandidatesAsAnnounced TrialsSummarised
PROPERTIES TrialsStayEnded OrchestratorReturns EveryRowEnds
CHECK_DEADLOCK FALSE

\* Two runs compete for one job slot; one DELETE request at a time; up to two faults.
CONSTANTS
    Runs = {r1, r2}
    Deleters = {d1}
    MaxJobs = 1
    MaxFaults = 2
    LiveRunsAge = TRUE
\* A server whose runs have all ended is idle.
CHECK_DEADLOCK FALSE
SPECIFICATION RunFairSpec
INVARIANTS CompletedHasArtifact EndedJobLeavesTerminalRow
PROPERTIES FollowsUntilTerminal TerminalOverwrittenByRace EveryRunEnds

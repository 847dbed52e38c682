CONSTANTS
    Runs = {r1}
    Deleters = {d1}
    MaxJobs = 1
    MaxFaults = 0
    LiveRunsAge = FALSE
\* A server whose runs have all ended is idle.
CHECK_DEADLOCK FALSE
SPECIFICATION RunSpec
PROPERTY FollowsStateMachine

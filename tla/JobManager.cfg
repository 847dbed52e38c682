\* Three starts over two ids, so an id is reused; the limit may drop from 2 to 1;
\* two callers of Stop.
CONSTANTS
    JobIds = {j1, j2}
    Threads = {t1, t2, t3}
    Stoppers = {owner, dtor}
    Limits = {1}
    DefaultLimit = 2
    MayRestartRunning = FALSE
    SpawnMayFail = TRUE
    NoThread = NoThread
    NoJob = NoJob
    Client = Client
SPECIFICATION FairSpec
INVARIANTS SlotAccounting StatusTracksThread CancelReachesThread StopJoinsEveryThread NeverTerminates
PROPERTIES StopReturns StartJobReleasesMutex

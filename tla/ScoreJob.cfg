\* Two requests and two job rows; batches of one and of two records; up to two crashes or
\* failing statements.  Everything stops once the requests are answered.
CONSTANTS
    MaxRows = 2
    Requests = {q1, q2}
    MaxRecords = 2
    Batch = 2
    MaxFaults = 2
SPECIFICATION FairSpec
INVARIANTS ProgressInv ScoredOncePerJob
PROPERTIES RevivedOnlyByItsJob EveryJobSettles
CHECK_DEADLOCK FALSE

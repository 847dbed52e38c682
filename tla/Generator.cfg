\* Eight records of two hosts in batches of three: a batch ends in the middle of a
\* timestamp, the last one is partial; a queue of one batch.
CONSTANTS
    Ticks = 4
    Hosts = 2
    BatchSize = 3
    MaxQueueSize = 1
SPECIFICATION FairSpec
INVARIANTS RecordsAccounted RunRowInv
PROPERTIES GeneratorEnds RowSettles

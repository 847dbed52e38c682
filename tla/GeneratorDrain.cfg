CONSTANTS
    Ticks = 2
    Hosts = 1
    BatchSize = 2
    MaxQueueSize = 1
SPECIFICATION Spec
INVARIANT SucceededAfterWriter

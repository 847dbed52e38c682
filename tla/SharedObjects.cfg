\* Two clients that nest over a pool of two: each can hold one and wait for the other.
\* Two callers of the cache, three models; a model may be too large for the cache.
CONSTANTS
    Clients = {a, b}
    Conns = {x1, x2, x3}
    PoolSize = 2
    MaxHeld = 2
    Nobody = Nobody
    Callers = {c1, c2}
    Models = {m1, m2, m3}
    small = small
    large = large
    huge = huge
    Paths = {small, large, huge}
    Usage <- MCUsage
    MaxEntries = 2
    MaxBytes = 6
    Ttl = 1
    MaxTime = 2
    MaxCounter = 14
SPECIFICATION SharedSpec
INVARIANTS ConnectionsAccounted BoundedConnections CacheInv
PROPERTIES TimeoutOnlyWhenExhausted GetConnectionReturns DriftOnlyByOverwrite

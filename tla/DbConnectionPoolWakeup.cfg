CONSTANTS
    Clients = {a, b}
    Conns = {x1, x2}
    PoolSize = 1
    MaxHeld = 1
    Nobody = Nobody
SPECIFICATION PoolSpec
INVARIANT SleeperWokenForSpace

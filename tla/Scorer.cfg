SPECIFICATION Spec
CONSTANTS
    WindowSize = 4
    RecomputeInterval = 3
    MinHistory = 2
    RobustZThreshold = 3
    PoisonSkipThreshold = 7
    EnablePoisonMitigation = TRUE
    Hysteresis = 2
    Cooldown = 3
    Hosts <- MCHosts
    MyShard <- MCMyShard
    Values = {0, 1, 5, 20}
    Period = 3
    MaxTime = 8
INVARIANTS AlertsJustified PersistentAnomalyAlerts GateLetsThrough WindowInv
CHECK_DEADLOCK FALSE

\* One job over one record, nothing fails; the reconciler sweeps it while it is busy.
CONSTANTS
    MaxRows = 1
    Requests = {q1}
    MaxRecords = 1
    Batch = 1
    MaxFaults = 0
SPECIFICATION Spec
ACTION_CONSTRAINT SweptWhileBusy
PROPERTY RowsFollowStateMachine
CHECK_DEADLOCK FALSE

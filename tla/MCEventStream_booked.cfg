\* A log of the first job booked to the second.
SPECIFICATION Spec
CONSTANTS
    NumJobs = 2
    Items <- TwoThenOne
    Callbacks <- OneThread
    MaxLogs = 1
    StatusCap = 1
    LogCap = 1
    QueueCap = 1
    MaxLosses = 0
    t1 = t1
INVARIANTS
    LogsBookedToRaiser

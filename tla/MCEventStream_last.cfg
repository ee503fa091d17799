\* A status overtaken by the report of its job.
SPECIFICATION Spec
CONSTANTS
    NumJobs = 1
    Items <- TwoItems
    Callbacks <- OneThread
    MaxLogs = 0
    StatusCap = 2
    LogCap = 1
    QueueCap = 2
    MaxLosses = 0
    t1 = t1
INVARIANTS
    CompletedIsLast

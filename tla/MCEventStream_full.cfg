\* The report of a job dropped by a full queue.
SPECIFICATION FairSpec
CONSTANTS
    NumJobs = 1
    Items <- OneItem
    Callbacks <- OneThread
    MaxLogs = 1
    StatusCap = 1
    LogCap = 1
    QueueCap = 1
    MaxLosses = 0
    t1 = t1
PROPERTIES
    CompletedIsQueued

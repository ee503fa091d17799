\* Two jobs, a callback that comes late, full channels and a full queue, and a
\* connection lost and made again with the old writer still at work.
SPECIFICATION FairSpec
CONSTANTS
    NumJobs = 2
    Items <- TwoThenOne
    Callbacks <- OneThread
    MaxLogs = 1
    StatusCap = 2
    LogCap = 1
    QueueCap = 1
    MaxLosses = 1
    t1 = t1
INVARIANTS
    IInv
    HandlerHoldsOpenChannels
    EventsCarryTheirJob
PROPERTIES
    ProgressMonotone
    ForwardersEnd

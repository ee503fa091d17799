\* Two connections, the writers and heartbeats that outlive them, and a shutdown at any moment.
SPECIFICATION FairSpec
CONSTANTS
    MaxConns = 2
    MaxMessages = 2
    QueueCap = 2
    Token = TRUE
INVARIANTS
    IInv
    ConnectionServed
    FlagFollowsLoop
PROPERTIES
    SignalEndsRun
    AuthArrives

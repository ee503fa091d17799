\* Two heartbeats on one connection.
SPECIFICATION Spec
CONSTANTS
    MaxConns = 2
    MaxMessages = 2
    QueueCap = 2
    Token = FALSE
INVARIANTS
    OneHeartbeat

\* What waited in the queue goes before auth.
SPECIFICATION Spec
CONSTANTS
    MaxConns = 2
    MaxMessages = 4
    QueueCap = 3
    Token = TRUE
INVARIANTS
    AuthFirst

\* What was sent while disconnected fills the queue, and auth is dropped.
SPECIFICATION Spec
CONSTANTS
    MaxConns = 2
    MaxMessages = 2
    QueueCap = 2
    Token = TRUE
INVARIANTS
    AuthQueued

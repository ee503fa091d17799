\* A second job that sees what the first one chose.
SPECIFICATION Spec
CONSTANTS
    Dirs <- MCOnce
    Requests <- MCRequests
    MaxCompiles = 2
INVARIANTS
    EveryCompileAsDocumented

\* Options mentioned by two sources of a request, or by one and by a case it chooses.
SPECIFICATION Spec
CONSTANTS
    Dirs <- MCTwice
    Requests <- MCRequests
    MaxCompiles = 1
INVARIANTS
    EveryCompileAsDocumented

\* Directories of every kind, all requests, and every other request after each.
SPECIFICATION Spec
CONSTANTS
    Dirs <- MCDirs
    Requests <- MCRequests
    MaxCompiles = 2
INVARIANTS
    StripAsDocumented
    LoadedAsDocumented
    FirstCompileAsDocumented
    HistoryAddsNoNode
    TemplatesKept
    OfferedChoicesCompile
    OfferedDefaultApplies

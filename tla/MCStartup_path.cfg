\* The path found by the first start is looked for no more.
SPECIFICATION Spec
CONSTANTS
    Texts <- MCTexts
    Reread <- MCReread
    Backslashed <- MCBackslashed
    Windows = TRUE
    Elsewhere <- MCElsewhere
    Machines <- MCMachines
    Files <- MCFiles
    Edits <- MCEdits
    CommandLines <- MCCommandLines
    Controllers <- MCControllers
    Desktops <- MCDesktops
    Finds <- MCFinds
    Malformed <- MCMalformed
    Holds <- MCHolds
    MaxStarts = 2
    MaxEvents = 1
INVARIANTS
    EmptyPathDetects

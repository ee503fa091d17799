\* Settings that a save changes; -continue shows all three.
SPECIFICATION Spec
CONSTANTS
    Texts <- MCTexts
    Reread <- MCReread
    Backslashed <- MCBackslashed
    Windows = TRUE
    Elsewhere <- MCElsewhere
    Machines <- MCMachines
    Files <- MCFiles
    Edits <- MCEdits
    CommandLines <- MCCommandLines
    Controllers <- MCControllers
    Desktops <- MCDesktops
    Finds <- MCFinds
    Malformed <- MCMalformed
    Holds <- MCHolds
    MaxStarts = 3
    MaxEvents = 0
INVARIANTS
    BackslashesRepaired
    SavesReadable
    RulesKept

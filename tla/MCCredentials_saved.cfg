\* A crash between the two files.
SPECIFICATION Spec
CONSTANTS
    MaxTokens = 3
    MaxStarts = 3
    Windows = FALSE
    Files <- PlainFiles
INVARIANTS
    SavedTokenIsUsed

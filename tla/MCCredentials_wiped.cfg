\* A registration overtakes the auth of an older token.
SPECIFICATION Spec
CONSTANTS
    MaxTokens = 2
    MaxStarts = 1
    Windows = FALSE
    Files <- PlainFiles
INVARIANTS
    NewBindingKept

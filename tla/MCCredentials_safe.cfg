\* Three starts, up to three tokens, every crash; files as users have them.
SPECIFICATION Spec
CONSTANTS
    MaxTokens = 3
    MaxStarts = 3
    Windows = FALSE
    Files <- AnyFiles
INVARIANTS
    IInv
    BindingSurvives
    RefusedNotReused

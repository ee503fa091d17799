\* A client that was refused and has no code to wait for.
SPECIFICATION Spec
CONSTANTS
    MaxTokens = 2
    MaxStarts = 2
    Windows = FALSE
    Files <- PlainFiles
INVARIANTS
    RefusedWaitsForBinding

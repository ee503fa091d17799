\* A client with a token asks for a code.
SPECIFICATION Spec
CONSTANTS
    MaxTokens = 1
    MaxStarts = 1
    Windows = FALSE
    Files <- PlainFiles
INVARIANTS
    AsksOnlyUnbound

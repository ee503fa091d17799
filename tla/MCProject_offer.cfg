\* What of the interface the web page is not told.
SPECIFICATION Spec
CONSTANTS
    Dirs <- MCOffered
    Requests <- MCRequests
    MaxCompiles = 1
INVARIANTS
    NoHiddenDefault
    EveryOptionOffered

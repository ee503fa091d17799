\* A stop that arrives between two taskers.
SPECIFICATION Spec
CONSTANTS
    Runs = {r1, r2}
    Shots = {}
    Controllers <- MCControllers
    Attaching <- MCAttaching
    Requests <- MCRequests
    Preferences <- MCPreferences
    NumAgents = 1
    None = None
    win = win
    adb = adb
    lost = lost
    official = official
    bilibili = bilibili
INVARIANTS
    PostStopOnLiveTasker

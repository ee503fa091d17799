\* A stop that arrives before RunTask.
SPECIFICATION Spec
CONSTANTS
    Runs = {r1}
    Shots = {}
    Controllers <- MCControllers
    Attaching <- MCAttaching
    Requests <- MCRequests
    Preferences <- MCPreferences
    NumAgents = 1
    None = None
    win = win
    adb = adb
    lost = lost
    official = official
    bilibili = bilibili
INVARIANTS
    StopHonoured

\* The client exits while a job starts its agents.
SPECIFICATION Spec
CONSTANTS
    Runs = {r1}
    Shots = {}
    Controllers <- MCControllers
    Attaching <- MCAttaching
    Requests <- MCRequests
    Preferences <- MCPreferences
    NumAgents = 1
    None = None
    win = win
    adb = adb
    lost = lost
    official = official
    bilibili = bilibili
INVARIANTS
    NoOrphanAgents

\* A screenshot that takes the controller of an executing job.
SPECIFICATION Spec
CONSTANTS
    Runs = {r1}
    Shots = {s1}
    Controllers <- MCControllers
    Attaching <- MCAttaching
    Requests <- MCRequests
    Preferences <- MCPreferences
    NumAgents = 1
    None = None
    win = win
    adb = adb
    lost = lost
    official = official
    bilibili = bilibili
INVARIANTS
    ClientServes

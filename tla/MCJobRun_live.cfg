\* A job and two screenshots that compete for the mutex; task items end by themselves.
SPECIFICATION FairSpec
CONSTANTS
    Runs = {r1}
    Shots = {s1, s2}
    Controllers <- MCControllers
    Attaching <- MCAttaching
    Requests <- MCLiveRequests
    Preferences <- MCPreferences
    NumAgents = 0
    None = None
    win = win
    adb = adb
    lost = lost
    official = official
    bilibili = bilibili
PROPERTIES
    JobsAnswered
    ShotsAnswered

\* A stop between the check and PostTask, and an item that never ends.
SPECIFICATION EndlessSpec
CONSTANTS
    Runs = {r1}
    Shots = {}
    Controllers <- MCControllers
    Attaching <- MCAttaching
    Requests <- MCLiveRequests
    Preferences <- MCPreferences
    NumAgents = 1
    None = None
    win = win
    adb = adb
    lost = lost
    official = official
    bilibili = bilibili
PROPERTIES
    StopEndsJob

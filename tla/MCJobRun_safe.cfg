\* Two jobs and a screenshot in every interleaving, with every failure, stop and shutdown.
SPECIFICATION Spec
CONSTANTS
    Runs = {r1, r2}
    Shots = {s1}
    Controllers <- MCControllers
    Attaching <- MCAttaching
    Requests <- MCRequests
    Preferences <- MCPreferences
    NumAgents = 2
    None = None
    win = win
    adb = adb
    lost = lost
    official = official
    bilibili = bilibili
SYMMETRY RunSymmetry
INVARIANTS
    TypeOK
    IInv
    OnlyKnownCrashes
    JobExclusion
    OnlyCachedControllerLives
    JobOwnsTasker
    StopLands
    StopSparesOthers
    AgentsConfined
    ResourceFitsJob
    ControllerFitsQuietJob
PROPERTIES
    ServiceSpec

CONSTANTS
    MaxWindows = 3
    MaxQueue = 3
    Commands = {"ENABLE", "DISABLE", "RELOAD"}
    Disturbances = {"destroy", "crash", "session", "stray", "hang", "pump", "gui"}
SPECIFICATION FairSpec
INVARIANTS
    TypeOK
    PayloadsOwned
    EngineOnOneWindow
    NoServerAfterUnmap
PROPERTIES
    ShutdownCompletes
    EngineComesUp

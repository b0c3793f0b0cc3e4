CONSTANTS
    MaxWindows = 2
    MaxQueue = 2
    Commands = {"ENABLE"}
    Disturbances = {}
SPECIFICATION Spec
INVARIANTS
    FramesUnrollFirst

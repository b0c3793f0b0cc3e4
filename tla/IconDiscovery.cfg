SPECIFICATION FairSpec
CONSTANTS
    MaxMonitors = 2
    Threads = {1, 2}
    Handles = {1, 2}
    MaxVersion = 2
    MaxStirs = 1
    MaxPosted = 1
    Blank = {1}
    Revive = FALSE
INVARIANTS
    TypeOK
    PayloadsAccounted
    NothingOutlivesDisable
PROPERTIES
    ShownNeverOlder
    ChangesShown

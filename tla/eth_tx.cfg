SPECIFICATION FairSpec
CONSTANTS
    None = None
    Skbs = {1, 2, 3, 4, 5}
    HwDescs = 3
    SwDescs = 4
    MaxDescs = 2
    WakeThresh = 2
    Sizes = {1, 2}
CONSTRAINT BeforeOverrun
ACTION_CONSTRAINT LowestFree
INVARIANTS TypeOK PrepareFits NoEarlyFree NothingHeld
PROPERTIES OverrunOnlyInWindow QueueRestarts

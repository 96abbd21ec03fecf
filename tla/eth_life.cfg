SPECIFICATION FairSpec
CONSTANTS
    Boards = {"plain", "lm", "phy"}
    LmModes = {"10G", "25G"}
INVARIANTS Balanced CarrierMeansUp RemovedClean
PROPERTIES  CloseEnds
CONSTRAINT BeforeResetMeetsLink
CHECK_DEADLOCK FALSE

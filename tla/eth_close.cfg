SPECIFICATION FairSpec
CONSTANTS
    Boards = {"plain"}
    LmModes = {"10G", "25G"}
PROPERTY CloseReturns
CHECK_DEADLOCK FALSE

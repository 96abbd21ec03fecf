SPECIFICATION FairSpec
CONSTANTS
    Links = {0, 1}
    Boards <- AllBoards
INVARIANTS CallsAreWhole CarrierHonest EstablishedReady ResetSparesSettled
PROPERTY GroupProgress
CHECK_DEADLOCK FALSE

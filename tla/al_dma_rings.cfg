SPECIFICATION Spec
CONSTANTS
    Slots = 3
    RxDescs = 4
    TxDescs = 3
    Dsts = {1, 2}
    Srcs = {1}
    MaxOps = 4
INVARIANTS TypeOK SlotsMatchHal DescsAccounted
CHECK_DEADLOCK FALSE

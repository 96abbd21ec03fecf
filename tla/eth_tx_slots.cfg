SPECIFICATION Spec
CONSTANTS
    None = None
    Skbs = {1, 2, 3, 4, 5, 6, 7}
    HwDescs = 5
    SwDescs = 6
    MaxDescs = 2
    WakeThresh = 2
    Sizes = {1}
ACTION_CONSTRAINT LowestFree
INVARIANTS SlotFree

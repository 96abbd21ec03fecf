SPECIFICATION FairSpec
CONSTANTS
    Frags = {f1, f2, f3, f4}
    None = None
    Descs = 3
    Budget = 1
    MaxDescs = 2
    BufLen = 2
    CopyLens = {0, 1}
PROPERTY Rescheduled

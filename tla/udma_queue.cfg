SPECIFICATION Spec
CONSTANTS
    Size = 4
    Reserve = 1
    MaxPkt = 2
INVARIANTS TypeOK RingAccounted NewExactly OnePacket
PROPERTIES DescOwned FifoSpec
CHECK_DEADLOCK FALSE

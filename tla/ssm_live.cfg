SPECIFICATION FairSpec
CONSTANTS
    c1 = c1
    c2 = c2
    r1 = r1
    r2 = r2
    r3 = r3
    None = None
    Worker = Worker
    Callers <- OneCaller
    Reqs <- ThreeReqs
    MaxInFlight = 2
    MaxBacklog = 1
    RingOps = 1
    Status = {"ok"}
    EarlyReuse = FALSE
INVARIANTS SyncIsOwn
PROPERTIES PendingServed CallReturns

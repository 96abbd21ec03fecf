SPECIFICATION Spec
CONSTANTS
    c1 = c1
    c2 = c2
    r1 = r1
    r2 = r2
    r3 = r3
    None = None
    Worker = Worker
    Callers <- TwoCallers
    Reqs <- ThreeReqs
    MaxInFlight = 2
    MaxBacklog = 1
    RingOps = 2
    Status = {"ok", "eio"}
    EarlyReuse = TRUE
SYMMETRY Symmetry
INVARIANTS TypeOK ResultIsOwn CountsAgree AnsweredOnce NoLostPoll

CONSTANTS
    r1 = r1
    r2 = r2
    r3 = r3
    d1 = d1
    d2 = d2
    NoReq = NoReq
    Reqs <- ThreeReqs
    Digests <- TwoDigests
    MaxActive = 1
    MaxRecords = 2
    MaxTombs = 3
    MaxReplies = 1
    Retention = 1
    MaxTime = 2
    MaxStarts = 4
SPECIFICATION Spec
INVARIANT RetainedStartAnswered
SYMMETRY Symmetry

CONSTANTS
    p1 = p1
    p2 = p2
    p3 = p3
    p4 = p4
    Pids <- FourPids
    NoPid = NoPid
    Monitor <- Terminal
    Born0 <- TerminalBorn
    Parent0 <- TerminalParent
    Kin0 <- TerminalKin
    Clock0 = 3
    MaxBirths = 5
    Deniable <- NoPids
    Linux = TRUE
    RebindLive = FALSE
    FleetingHolders = FALSE
    Resources = {"memory"}
    DriftFloor = 1
    None = None
    Procs = {q1, q2}
    Reports <- MCSingles
    Compared <- MCCompared
    Groups <- MCGroups
    MaxAudit = 3
    MaxDays = 1
    MaxTime = 1
    MaxDamage = 1
SPECIFICATION BuildSpec
INVARIANTS NothingForeign BaselineReadable ComparisonHolds
PROPERTIES UserStopRespected AuditOnlyGrows
CHECK_DEADLOCK FALSE

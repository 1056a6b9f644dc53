CONSTANTS
    p1 = p1
    p2 = p2
    p3 = p3
    p4 = p4
    Pids <- ThreePids
    NoPid = NoPid
    Monitor <- NoPids
    Born0 <- LoneBorn
    Parent0 <- LoneParent
    Kin0 <- LoneKin
    Clock0 = 1
    MaxBirths = 3
    Deniable <- OnePid
    Linux = FALSE
    RebindLive = FALSE
    FleetingHolders = TRUE
SPECIFICATION Spec
PROPERTY DiscoveryContinues

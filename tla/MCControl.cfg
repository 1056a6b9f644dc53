CONSTANTS
    p1 = p1
    p2 = p2
    p3 = p3
    p4 = p4
    Pids <- ThreePids
    NoPid = NoPid
    Monitor <- NoPids
    Born0 <- AppBorn
    Parent0 <- AppParent
    Kin0 <- AppKin
    Clock0 = 2
    MaxBirths = 3
    Deniable <- OnePid
    Linux = FALSE
    RebindLive = FALSE
    FleetingHolders = TRUE
    c1 = c1
    c2 = c2
    s1 = s1
    s2 = s2
    w1 = w1
    w2 = w2
    NoCmd = NoCmd
    NoSub = NoSub
    Cmds <- TwoCmds
    Subs <- OneSub
    CmdMax = 1
    BatchMax = 1
    SubMax = 1
    Subscriptions <- TwoSubscriptions
    Workers <- TwoWorkers
    Hanging <- OneSub
    QueueMax = 1
    PendingMax = 2
    MaxOffers = 3
SPECIFICATION ControlSpec
INVARIANTS EverySuspendedIsOwed MembersStayTracked AnswersAreTrue TurnsAreTrue
PROPERTY EverybodyIsServed
CHECK_DEADLOCK FALSE

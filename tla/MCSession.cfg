CONSTANTS
  QueueMax = 2
  MaxSamples = 4
  MaxHits = 2
  MaxErrors = 1
  i1 = i1
  i2 = i2
  NoItem = NoItem
  Items <- MCItems
  MaxEntries = 1
  MaxAttempts = 2
  MaxLimit = 2
  MaxSends = 2
  Signalled = {memory, handles}
  Levels = {0, 1, 2}
  Pids = {q1, q2}
  StreamLimit = 2
  TimelineLimit = 3
  MarkerLimit = 1
  BurstLimit = 1
  MaxPublished = 3
  PrivateReports <- MCPrivate
  HostPids = {1, 2, 3, 4}
  HostTimes = {1, 2, 3}
  Texts = {"x", "y"}
  MaxChanges = 2
SPECIFICATION ShownSpec
INVARIANTS
  CleanupIsTrue
  EveryEntryAccounted
  SharedIsAnonymous
  TimelineIsCurrent
  ScreenTellsAll
PROPERTIES
  ImplementsLossyQueue
  ImplementsDelivery
  CleanupEnds
CHECK_DEADLOCK FALSE

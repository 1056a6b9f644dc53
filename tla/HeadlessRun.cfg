CONSTANTS
  MaxObserved = 3
  MaxTroubles = 3
SPECIFICATION RunSpec
INVARIANT ErrorsStayOnRecord
CHECK_DEADLOCK FALSE

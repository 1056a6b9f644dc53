CONSTANTS
  a1 = a1
  a2 = a2
  r1 = r1
  r2 = r2
  k1 = k1
  k2 = k2
  c1 = c1
  c2 = c2
  c3 = c3
  c4 = c4
  w1 = w1
  w2 = w2
  Nobody = Nobody
  Agents <- MCAgents
  Removers <- MCRemovers
  Kids <- MCKids
  MaxFailures = 2
  Calls <- MCCalls
  Slow <- MCSlow
  NoCall = NoCall
  Writers <- MCWriters
  NoOne = NoOne
  Cadence = 1
  MaxErrors = 2
  MaxSampled = 2
  MaxFaults = 2
  MaxClock = 2
  Exercises = 2
  MaxHits = 3
  MaxMishaps = 2
  Capacity = 2
  LineLimit = 3
  LogLimit = 5
  Outputs <- MCOutputs
  Patience = 2
  MaxPresses = 2
SPECIFICATION OperationsSpec
INVARIANT NoSecretFragment
CHECK_DEADLOCK FALSE

CONSTANTS
  Samples <- MCSamples
  Limit = 12
  Checkpoint = 3
  MaxTaken = 13
  MaxTurns = 2
  Root = 1
  MaxTracked = 2
  MaxExited = 2
  MaxPoints = 8
  RestartSeconds = 10
  Windows <- MCWindows
  Warmup = 1
  CriticalDelta = 4
  CriticalSlope = 2
  Pids = {1, 2, 3}
  MaxTicks = 8
  MaxEvents = 3
  MaxObserved = 3
  MaxTroubles = 3
  ConfirmTicks = 2
  MaxErrors = 1
  Own = 2
  Digits <- MCDigits
  Names <- MCNames
  Veiled = {3}
  PageRows = 1
  Typed <- MCTyped
  Lines <- MCLines
  MaxBirths = 4
  MaxHappened = 3
  MaxKeys = 4
  Files = {"manifest", "main", "view"}
  Manifest = "manifest"
  MaxLosses = 2
  Plain = {"timeout", "warmup"}
  Tabled = {"private", "handles"}
  Layers <- MCLayers
SPECIFICATION MachinesSpec
INVARIANTS
  RecordIsTrue
  DetectorIsRight
  RunIsTrue
  OneComparison
  HookIsMeant
  RepairIsCareful
  SettingsAreLayered
  PrerequisitesAreEarned
PROPERTIES
  KillIsConfirmed
CHECK_DEADLOCK FALSE

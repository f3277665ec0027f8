SPECIFICATION Spec
CONSTANTS
  Files <- MCFiles
  Contents <- MCContents
  Size <- MCSize
  Builds <- MCBuilds
  First = "b1"
  Manifest <- MCManifest
  Allowed = {}
  Dxvk = "d3d9"
  Backup <- MCBackup
  MaxEdits = 2
  MaxTurns = 1
INVARIANTS
  NoFalseAlarm
  ArrivalsTold
PROPERTIES
  DamageTold
CHECK_DEADLOCK FALSE

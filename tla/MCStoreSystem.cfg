SPECIFICATION SystemSpec
CONSTANTS
  MaxCycles = 3
  MaxCrashes = 2
  MaxBackups = 1
  BodySize <- MCBodySize
  MaxKills = 3
  MaxLosses = 1
  Shelves <- MCShelves
INVARIANT NeverRefused
INVARIANT HeadRecovers
INVARIANT WholeCycles
INVARIANT BackupIsAHead
INVARIANT RestoredExactly
INVARIANT RefusedForCause
PROPERTY ImplementsCycleLog

SPECIFICATION Spec
CONSTANTS
  EnableNtier = FALSE
  RegionSize = 2
  MegaByte = 1
  HotTh = 25
  SlowTier <- NoSlowTier
  Policies = {"HEMEM"}
  Spaces <- EvenSpace
  Batches <- EvenBatches
  MaxSpan = 9
  MaxWindows = 1
  Files <- OldFiles
  ScriptMayFail = FALSE
INVARIANT HottestIsFast

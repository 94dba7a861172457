\* Two or three regions, every policy, convolve.py may fail.
SPECIFICATION Spec
CONSTANTS
  EnableNtier = TRUE
  RegionSize = 2
  MegaByte = 1
  HotTh = 75
  SlowTier <- NoSlowTier
  Policies = {"HEMEM", "WATERFALL"}
  Spaces <- GrowingSpaces
  Batches <- SmallBatches
  MaxSpan = 5
  MaxWindows = 3
  Files <- OldFiles
  ScriptMayFail = TRUE
INVARIANT TypeOK
INVARIANT Tiling
INVARIANT AssignInBounds
INVARIANT GradualDemotion
INVARIANT ThresholdOfTheseCounts
INVARIANT IdleIsSlow
PROPERTY EachAccessCounted
PROPERTY HotnessMovesWithItsRange

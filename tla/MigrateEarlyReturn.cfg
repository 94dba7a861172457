\* As MigrateGrowth: a push to the fast node after the space has grown.
SPECIFICATION Spec
CONSTANTS
  EnableNtier = TRUE
  Threads = 2
  MaxPages = 3
  PagesPerRegion = 2
  InitRegions = 2
  MaxRegions = 4
  MaxWindows = 2
  SpaceGrows = TRUE
  Targets = {0, 10}
  SyscallMayFail = FALSE
  MoveMayFail = FALSE
  PageoutMayFail = FALSE
INVARIANT BroughtOutOfZswap

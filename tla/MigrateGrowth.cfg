\* Build with compressed tiers, an address space that grows, a kernel that does not fail.
SPECIFICATION Spec
CONSTANTS
  EnableNtier = TRUE
  Threads = 2
  MaxPages = 9
  PagesPerRegion = 2
  InitRegions = 2
  MaxRegions = 4
  MaxWindows = 2
  SpaceGrows = TRUE
  Targets = {0, 10}
  SyscallMayFail = FALSE
  MoveMayFail = FALSE
  PageoutMayFail = FALSE
INVARIANT PhaseCoverage

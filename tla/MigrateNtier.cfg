\* Build with compressed tiers, stable address space, moves succeed; the system call may fail.
SPECIFICATION Spec
CONSTANTS
  EnableNtier = TRUE
  Threads = 2
  MaxPages = 3
  PagesPerRegion = 2
  InitRegions = 3
  MaxRegions = 3
  MaxWindows = 2
  SpaceGrows = FALSE
  Targets = {0, 1, 10}
  SyscallMayFail = TRUE
  MoveMayFail = FALSE
  PageoutMayFail = FALSE
INVARIANT TypeOK
INVARIANT BeliefSound
INVARIANT PushersDisjoint

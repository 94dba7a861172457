\* As MigrateNtier, with move_pages failing.
SPECIFICATION Spec
CONSTANTS
  EnableNtier = TRUE
  Threads = 2
  MaxPages = 3
  PagesPerRegion = 2
  InitRegions = 3
  MaxRegions = 3
  MaxWindows = 2
  SpaceGrows = FALSE
  Targets = {0, 1, 10}
  SyscallMayFail = FALSE
  MoveMayFail = TRUE
  PageoutMayFail = FALSE
INVARIANT ReportedPagesMoved

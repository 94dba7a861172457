\* Stock build, two nodes: one window over a stable address space, every kernel call may fail.
SPECIFICATION FairSpec
CONSTANTS
  EnableNtier = FALSE
  Threads = 2
  MaxPages = 2
  PagesPerRegion = 2
  InitRegions = 3
  MaxRegions = 3
  MaxWindows = 1
  SpaceGrows = FALSE
  Targets = {0, 1}
  SyscallMayFail = TRUE
  MoveMayFail = TRUE
  PageoutMayFail = FALSE
INVARIANT BudgetOvershoot
INVARIANT CandidatesAccounted
INVARIANT ReportBound
INVARIANT MoveHitsRecommendation
PROPERTY RecommendationServed

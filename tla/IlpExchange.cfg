\* Two daemons, three requests, a server that may end at any time and a solver that may not end.
SPECIFICATION FairSpec
CONSTANTS
  EnableNtier = TRUE
  NrRegions = 2
  Solutions <- TwoSolutions
  MaxRequests = 3
  MaxDaemons = 2
  MaxRetries = 1
  MaxTears = 0
  ScriptMayFail = FALSE
  RemoteMode = TRUE
INVARIANT TypeOK
INVARIANT LateSolverAlone
PROPERTY ImplementsService
PROPERTY Responsive

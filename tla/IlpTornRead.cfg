\* As IlpExchange.cfg, and an int may arrive in two pieces.
SPECIFICATION Spec
CONSTANTS
  EnableNtier = TRUE
  NrRegions = 2
  Solutions <- TwoSolutions
  MaxRequests = 2
  MaxDaemons = 1
  MaxRetries = 1
  MaxTears = 1
  ScriptMayFail = FALSE
  RemoteMode = TRUE
INVARIANT AnswersAreOwn

\* Three accesses, every way of ending the daemon.
SPECIFICATION FairSpec
CONSTANTS
  MaxEvents = 3
  DisableMigration = FALSE
  MalformedInput = TRUE
  ProcessingMayExit = TRUE
INVARIANT TypeOK
INVARIANT FifoDelivery
INVARIANT BatchNotEmpty
INVARIANT UnlockedClearIsAlone
PROPERTY AccessesProcessed
PROPERTY ShutdownCompletes

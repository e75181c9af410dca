SPECIFICATION FairSpec
CONSTANTS
  Main = main
  Users = {u1, u2}
  MaxAttempts = 2
  None = None
  MaxOutages = 2
INVARIANTS OkMeansReady MigratesOnce
PROPERTIES PoolIsForGood StartupDecides
CHECK_DEADLOCK FALSE

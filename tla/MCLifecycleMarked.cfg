SPECIFICATION FairSpec
CONSTANTS
  Domains = {d1}
  Callers = {boot, h1}
  Boot = boot
  NoDomain = NoDomain
  Pages = {root}
  Root = root
  MayPanic = FALSE
  MaxAttempts = 2
  BootstrapLimit = 2
  Durable = TRUE
  IndexMayFail = FALSE
  DbMayFail = FALSE
  MaxCopies = 1
  MaxUpserts = 1
  MaxCrashes = 0
PROPERTIES MarkedReliably

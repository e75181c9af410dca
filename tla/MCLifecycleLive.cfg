SPECIFICATION FairSpec
CONSTANTS
  Domains = {d1}
  Callers = {boot, h1, h2}
  Boot = boot
  NoDomain = NoDomain
  Pages = {root, page}
  Root = root
  MayPanic = FALSE
  MaxAttempts = 3
  BootstrapLimit = 2
  Durable = FALSE
  IndexMayFail = TRUE
  DbMayFail = TRUE
  MaxCopies = 0
  MaxUpserts = 2
  MaxCrashes = 1
PROPERTIES QueuedPendingServed RestartServesPending AcceptedIsServed CrawlEnds

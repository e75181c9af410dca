SPECIFICATION Spec
CONSTANTS
  Domains = {d1, d2}
  Callers = {boot, h1}
  Boot = boot
  NoDomain = NoDomain
  Pages = {root}
  Root = root
  MayPanic = TRUE
  MaxAttempts = 2
  BootstrapLimit = 1
  Durable = TRUE
  IndexMayFail = FALSE
  DbMayFail = TRUE
  MaxCopies = 1
  MaxUpserts = 1
  MaxCrashes = 1
SYMMETRY Symmetry
INVARIANTS PendingAccounted ReadyIsSearchable
PROPERTIES StatusOnlyAdvances

SPECIFICATION QFairSpec
CONSTANTS
  Domains = {d1, d2, d3}
  Callers = {c1, c2, c3}
  NoDomain = NoDomain
  MayPanic = TRUE
INVARIANTS InFlightIsHeld OneHolder
PROPERTIES StuckOnlyByPanic ImplementsSlots EnqueueReturns ImplementsFairSlots

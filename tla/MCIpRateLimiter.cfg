SPECIFICATION Spec
CONSTANTS
  Calls = {c1, c2, c3}
  NoTime = NoTime
  Max = 2
  Window = 3
  Slack = 2
  MaxTime = 9
SYMMETRY Symmetry
INVARIANTS QueueCoversWindow
PROPERTIES WindowBound RefusalJustified
CHECK_DEADLOCK FALSE

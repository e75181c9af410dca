SPECIFICATION Spec
CONSTANTS
  Main = main
  Users = {}
  MaxAttempts = 2
  None = None
  MaxOutages = 1
INVARIANTS StartupProceeds
CHECK_DEADLOCK FALSE

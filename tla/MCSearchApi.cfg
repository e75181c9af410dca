SPECIFICATION Spec
CONSTANTS
  Handlers = {h1, h2}
  NoEntry = NoEntry
  Ttl = 2
  Latency = 1
  MaxTime = 6
SYMMETRY Symmetry
PROPERTIES AnswerIsRecent

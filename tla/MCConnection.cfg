SPECIFICATION Spec
CONSTANTS
  Heads <- AllHeads
  Hellos <- Greetings
  MaxMessage = 9
  MaxHandshake = 6
  Chunk = 9
  MaxRequests = 2
INVARIANTS ChunksDoNotMatter NothingLeftOver
CHECK_DEADLOCK FALSE

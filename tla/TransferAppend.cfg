\* A chunk that is confirmed and not appended.
CONSTANTS
  h1 = h1
  h2 = h2
  NoSlot = NoSlot
  NoFile = NoFile
  Slots = {h1, h2}
  MaxChunks = 2
  MaxAttempts = 2
  ChunkRetries = 2
  TransferTTL = 1
SYMMETRY SlotSymmetry
SPECIFICATION Spec
INVARIANTS
  ConfirmedIsStored
CHECK_DEADLOCK FALSE

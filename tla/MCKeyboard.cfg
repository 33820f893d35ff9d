SPECIFICATION LiveSpec
CONSTANTS
  KEY_BUF_SIZE = 3
  Keys <- MCKeys
  MaxTyped = 4
  Counts = {1, 2}
INVARIANTS
  DecodesInOrder
  NoStuckModifier
  InputAccounted
PROPERTIES
  QueueSpec
  EnterEndsRead
CHECK_DEADLOCK FALSE

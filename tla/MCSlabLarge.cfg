CONSTANTS
  Entries <- MCEntries
  PAGE_SIZE = 8
  Counts = {1, 2, 4}
  SLAB_SIZE_MIN = 2
  NUM_SLAB_CACHES = 2
  HEADER = 3
  MIN_OBJS = 2
  LARGE_OBJ_HEADER_SIZE = 1
  MAX_LARGE_PAGES = 3
  Sizes = {3, 17}
  MaxLive = 4
SPECIFICATION SlabSpec
INVARIANT NoFalseAlarm

SPECIFICATION Spec
CONSTANTS
  PAGES = 29
  ENTRIES = 2
  PAGE_SIZE = 4
  USER_STACK_TOP = 28
  USER_STACK_PAGES = 3
  PIE_BASE = 4
  UINT64_MAX = 63
  WORD = 2
  STACK_ALIGN = 4
  AUX_WORDS = 1
  MAX_STACK_STRINGS = 4
  NX_ENABLED = TRUE
  Images <- MCImages
  Args <- MCArgs
INVARIANTS
  SpacesIntact
  CallsReleaseAll
  ImageExact
  EntryStack
PROPERTY
  NoPageLeaks

CONSTANTS
  Entries <- MCEntries
  PAGE_SIZE = 8
  Counts = {1, 2}
SPECIFICATION PmmSpec
INVARIANT FreePagesExact

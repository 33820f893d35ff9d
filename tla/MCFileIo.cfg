CONSTANTS
  Regular <- MCRegular
  Children <- MCChildren
  PAGE_SIZE = 2
  USER_TOP = 8
  CHUNK = 2
  MAX_IO_SIZE = 4
  MAX_IOVEC_COUNT = 3
  DIRENTS = 2
  IOVEC = 1
  INT_MAX = 5
  STRUCT = 3
  Permissions <- MCPermissions
  FdArg = {0, 1, 3, 4, 5, 9}
  SeekArg = {1, 3, 4}
  Buffers = {0, 3, 8}
  Counts = {0, 1, 4, 5}
  Offsets <- MCOffsets
  IoVectors <- MCIoVectors
  Masks = {{4}, {1, 2}}

SPECIFICATION Spec

INVARIANTS
  ReadExact
  WriteExact
  SeekExact
  DirentsOnce
  StructWhole

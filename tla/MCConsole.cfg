CONSTANTS
  FONT_HEIGHT = 2
  HEIGHT = 5
  COLS = 3
  TAB = 2
  PTR_DIGITS = 2
  SIZE_MAX = 255
  Printer = {bsp, ap}
  BSP = bsp
  Char <- MCChar
  Values <- MCValues
  RaceValues <- MCRaceValues
  MaxValues = 3
SPECIFICATION Spec
INVARIANTS
  CursorRecovers
  ScreenIsTail
CHECK_DEADLOCK FALSE

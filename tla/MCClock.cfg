SPECIFICATION Spec
CONSTANTS
  Cpu = {"bsp", "ap"}
  BSP = "bsp"
  timer_period_ticks = 4
  timer_ticks_per_ms = 2
  MaxTime = 9
INVARIANT
  ClockMonotonic
CHECK_DEADLOCK FALSE

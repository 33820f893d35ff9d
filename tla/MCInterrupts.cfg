SPECIFICATION LiveSpec
CONSTANTS
  MAX_IOAPICS = 2
  MAX_ISOS = 2
  Chips <- MCChips
  Tables <- MCTables
  Calls <- MCCalls
  Off = Off
  Elapsed = {0, 9}
  MAX_COUNT = 100
  FALLBACK = 7
  APIC_TIMER_TICK = 5
  Faults = {8, 12, 14}
  KernelBase = 64
  Stacks <- MCStacks
  PanicRip = 126
  HandlerSite = 114
  EntrySite = 109
  PanicFrames <- MCPanicFrames
  MaxTrace = 8
  kallsyms_syms <- MCSyms
INVARIANTS
  RoutesExact
  FrameRestored
  PanicExact
PROPERTIES
  TableSpec
  IrqsServed
CHECK_DEADLOCK FALSE

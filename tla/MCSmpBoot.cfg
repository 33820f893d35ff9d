SPECIFICATION LiveSpec
CONSTANTS
  CPUs <- MCCpus
  BSP = "bsp"
  processor_id <- MCProcessorId
  AP_TIMEOUT = 3
  StackMemory = 8
INVARIANTS
  OwnStack
  TasksAssigned
PROPERTIES
  NoUnsavedSwitch
  BootSettles

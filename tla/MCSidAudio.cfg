SPECIFICATION Spec
CONSTANTS
  Half = 4
  MaxFreq = 2
  max_queued = 3
  max_cycles = 3
  HostDisables = FALSE
  Programs <- MCPrograms
  MaxTicks = 4
  MaxWrites = 4
  MaxBurst = 3
INVARIANTS
  QueueInOrder
  ChipFollows
PROPERTIES
  CycleAccurate
  SpansAreCycles
CHECK_DEADLOCK FALSE

SPECIFICATION Spec
CONSTANTS
  Base = 2
  CyclesPerLine = 4
  LinesPerFrame = 2
  CompareValue <- MCCompareValue
  InstructionCycles <- MCInstructionCycles
INVARIANTS
  StartBitExact
  StepIsCycles

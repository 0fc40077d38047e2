SPECIFICATION Spec
CONSTANTS
  Opener <- MCOpener
  Statement <- MCStatement
  MaxLines = 3
INVARIANTS
  RunsAsWritten
PROPERTY
  CyclesExact
CHECK_DEADLOCK FALSE

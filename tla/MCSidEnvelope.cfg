SPECIFICATION Spec
CONSTANTS
  Top = 4
  Positions = 11
  Rates = {8, 10}
  Levels = {0, 3, 4}
  NewPeriod <- MCNewPeriod
PROPERTIES
  ReleaseEnds
  HeldRests

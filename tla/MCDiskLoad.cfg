SPECIFICATION DiskSpec
CONSTANTS
  Images <- MCImages
  Requests <- MCRequests
  Bound <- MCBound
  Blocks = {1, 2, 3, 4}
  Header = 4
  Outside = 9
  Cells = 2
  LoadAt <- MCLoadAt
  Size = 16
  Trap = 14
  Basic = 8
  Stack = 6
  Slots = 2
  VERIFY = 2
  STATUS = 3
  END_ADDR = 1
  VARTAB = 4
  NDX = 5
  Callers = {10, 13}
INVARIANT FileRead
PROPERTIES
  LoadReturns
  LoadsAsRoutine

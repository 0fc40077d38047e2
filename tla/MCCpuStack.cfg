SPECIFICATION Spec
CONSTANTS
  Base = 2
  PageSize = 5
  Flags = {"interrupt"}
  Vector = 2
INVARIANTS
  StackHolds
PROPERTY
  ImplementsCallStack

SPECIFICATION Spec
CONSTANTS
  VicSource <- MCVicSource
  CiaSource <- MCCiaSource
INVARIANTS
  IrqLineExact
  Cia1FiredExact
  NmiLineExact
PROPERTIES
  NmiOnEdge
  RmwAcknowledges

\* Up to three devices with any portions, a device without one included.
SPECIFICATION DistributionSpec
CONSTANTS
  NumDevices = 3
  PortionValues = {0, 1, 2, 3}
  ArrayLengths = {0, 1, 2, 3, 4, 5, 6, 7, 8, 9, 10}
  StrideValues = {1, 2, 3}
  ElementSize = 4
INVARIANTS
  PartsAreDisjoint
  NoIterationTwice
  AccessesStayInPart
  EvenSplitsAreExact
CHECK_DEADLOCK FALSE

\* Data constructs on two devices; the two-way map can fill up.
SPECIFICATION StructuredSpec
CONSTANTS
  Devices = {dev0, dev1}
  HostPtrs = {h1, h2, h3}
  DevPtrs = {b1, b2, b3}
  Sizes = {4, 8}
  Capacity = 2
  MaxDepth = 3
  Junk = Junk
  None = None
SYMMETRY Symmetric
INVARIANTS
  NoSpuriousHalt
  EnvironmentsHoldAllocations
  OneOwner
  NoBufferLeak
PROPERTY ImplementsPresentTable
CHECK_DEADLOCK FALSE

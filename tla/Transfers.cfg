\* One array on two devices; data constructs end on either device.
SPECIFICATION TransfersSpec
CONSTANTS
  dev0 = dev0
  dev1 = dev1
  h1 = h1
  h2 = h2
  Devices = {dev0, dev1}
  HostPtrs = {h1, h2}
  Owner <- TwoDevices
  DevPtrs = {b1, b2}
  Sizes = {4}
  Capacity = 1
  MaxDepth = 2
  MaxQueue = 2
  NumValues = 2
  Junk = Junk
  None = None
SYMMETRY Symmetric
INVARIANTS
  HostOwnsItsMemory
PROPERTY ImplementsBlockingMemory
CHECK_DEADLOCK FALSE

\* Two contexts of each of two devices, and any program that uses them.
SPECIFICATION Spec
CONSTANTS
  Types <- MCTypes
  acc_device_any = "any"
  Table <- MCTable
  Regions = {r1}
  Versions = {v1, v2}
  Arrays = {x}
  Unset = Unset
  Freed = Freed
  Address = Address
  MaxContexts = 2
CHECK_DEADLOCK FALSE
INVARIANTS
  NoWildAccess
  NoForeignObject
  ProgramsAreOwned

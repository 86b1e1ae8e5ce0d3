\* A client that leaves no hole when it inserts; the map fills up.
SPECIFICATION CompactSpec
CONSTANTS
  Key1 = {h1, h2, h3}
  Key2 = {d1, d2, d3}
  Data = {n1}
  Size = 2
  Junk = Junk
INVARIANTS
  KeysLeadToTheirValue
  CountsStoredDatas
  RemovalsCommute
PROPERTY ImplementsPairTable
CHECK_DEADLOCK FALSE

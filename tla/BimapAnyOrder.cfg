\* A client that removes and inserts in any order.
SPECIFICATION Spec
CONSTANTS
  Key1 = {h1, h2, h3}
  Key2 = {d1, d2, d3}
  Data = {n1}
  Size = 3
  Junk = Junk
INVARIANT KeysLeadToTheirValue
CHECK_DEADLOCK FALSE

\* Up to six entries out of seven keys.
SPECIFICATION AssociativeSpec
CONSTANTS
  Keys = {1, 2, 3, 4, 5, 6, 7}
  Values = {da, db}
  Absent = Absent
  InitSize = 1
  MaxCount = 6
INVARIANTS
  AssociativeTypeOK
  StrictlyAscending
  SearchContract
PROPERTY ImplementsKeyTable

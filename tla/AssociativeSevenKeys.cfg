\* One entry more: the search meets a pivot of a sub-range that does not
\* start at 0.
SPECIFICATION AssociativeSpec
CONSTANTS
  Keys = {1, 2, 3, 4, 5, 6, 7}
  Values = {da}
  Absent = Absent
  InitSize = 1
  MaxCount = 7
INVARIANT SearchContract

CONSTANTS
  r1 = r1
  r2 = r2
  Results = {r1, r2}
  RowCounts = {0, 4}
  PageSizes = {0, 1}
  DefaultPage = 3
  ErrorCodes = {9}
  Wrap = 16
  MaxPastEnd = 1
SPECIFICATION Spec
INVARIANTS TypeOK RowNearPage RowsInOrder EndMeansAllRows LoadFailureRaises
PROPERTIES ImplementsRowStream

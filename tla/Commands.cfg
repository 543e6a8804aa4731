CONSTANTS
  a = a
  Conns = {a}
  Descriptors = {3, 4}
  ErrorCodes <- MCErrorCodes
  ColumnCounts = {0, 1, 3}
  RowCounts <- MCRowCounts
  FirstPages = {0, 2}
  MaxColumns = 2
SPECIFICATION Spec
INVARIANTS TypeOK InStep OwnAnswer OwnDescriptor FailureHasReason
PROPERTIES CallsReturn
CHECK_DEADLOCK FALSE

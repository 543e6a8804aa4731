CONSTANTS
  ChunkSize = 32
  Schemas <- MCSchemas
  RowNumbers = {0, 1, 2}
  Lengths = {0, 3, 4}
  MaxLength = 6
  IntMin <- MCIntMin
  Codes = {0, 7}
SPECIFICATION Spec
INVARIANTS TypeOK StaysInStep CellsArriveAsSent ValuesSurvive FailureHasCode BlocksAreSound
CHECK_DEADLOCK FALSE

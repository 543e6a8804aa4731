CONSTANTS
  Queries <- MCQueries
  Arguments <- MCArguments
  Depth = 3
  Reserve = 1
  MaxStranded = 1
SPECIFICATION Spec
INVARIANTS RequestArrives EveryBlockIsOwned
CHECK_DEADLOCK FALSE

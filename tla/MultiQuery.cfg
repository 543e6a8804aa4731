CONSTANTS
  Requests <- MCRequests
  NUL = NUL
  MaxLen = 5
SPECIFICATION Spec
INVARIANTS TypeOK
PROPERTIES ImplementsLexer
CHECK_DEADLOCK FALSE

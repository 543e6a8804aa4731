CONSTANTS
  NULL = NULL
  Blocks <- MCBlocks
SPECIFICATION Spec
INVARIANTS TypeOK NoLeakNoDangling OneOwner ValuesAreInTheirArena

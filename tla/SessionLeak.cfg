CONSTANTS
  c1 = c1
  c2 = c2
  p = p
  None = None
  NULL = NULL
  Users = {c1}
  Private = p
  Blocks = {1, 2, 3, 4}
  MaxBatch = 2
SPECIFICATION Spec
INVARIANTS OldResultsAreFreed

SPECIFICATION Spec
CONSTANTS
  p = p
  q = q
  Posts = {p, q}
  Rows <- AllRows
  InitialRows <- Existing
  MaxCalls = 3
INVARIANTS
  TypeOK
  OnlyLateRowsRemain
PROPERTY ImplementsAtomicPurge
CHECK_DEADLOCK FALSE

\* No, fewer, as many and more inner rows than the array has room for.
CONSTANTS
  MaxInner = 4
  MaxOuter = 2
  innerArraysize = 3
  NULL = NULL
  Cleared = Cleared
SPECIFICATION JoinSpec
INVARIANTS PairsExact EndOnce OuterSaved
PROPERTIES Terminates
\* A join that has ended is not called again.
CHECK_DEADLOCK FALSE

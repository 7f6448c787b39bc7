CONSTANTS
  MCLists = {2}
  Froms <- MCFroms
  TargetsOf <- MCTargets
  CondsOf <- MCConds
  Values = {0, 1}
  NULL = NULL
SPECIFICATION Spec
INVARIANT ColumnsMeant
CHECK_DEADLOCK FALSE

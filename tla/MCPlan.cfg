\* Every tree of conditions of the MC module, over lists of one to three relations.
CONSTANTS
  MCLists = {1, 2, 3, 4, 5, 6, 7}
  Froms <- MCFroms
  TargetsOf <- MCTargets
  CondsOf <- MCConds
  Values = {0, 1}
  NULL = NULL
SPECIFICATION Spec
INVARIANTS ConjunctsKept TestedEarly SelectExact
\* A statement has been run.
CHECK_DEADLOCK FALSE

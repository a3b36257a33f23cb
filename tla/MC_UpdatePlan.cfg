\* Binding and planning of every UPDATE of a three-column table.
CONSTANTS
  NumColumns = 3
  PartitionSpecs <- MCPartitionSpecs
SPECIFICATION Spec
INVARIANT TypeOK
INVARIANT PlanExpressions
\* Planning ends: a planned or rejected statement takes no further step.
CHECK_DEADLOCK FALSE

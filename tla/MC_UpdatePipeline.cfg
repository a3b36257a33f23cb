\* The update pipeline; the checked nested calls may block.
CONSTANTS
  t1 = t1
  t2 = t2
  r1 = r1
  r2 = r2
  r3 = r3
  Threads <- MCThreads
  Rows <- MCRows
  Inputs <- MCInputs
  VectorSize = 2
  MayBlock = {"combine", "finalize", "insertSink"}
SYMMETRY MCSymmetry
SPECIFICATION Spec
INVARIANT TypeOK
INVARIANT UpdateConservation
INVARIANT UpdateRejectsDuplicates
PROPERTY Termination
CHECK_DEADLOCK FALSE

\* A blocked copy Sink: Sink ignores the answer and still counts the rows.
CONSTANTS
  t1 = t1
  t2 = t2
  r1 = r1
  r2 = r2
  r3 = r3
  Threads <- MCThreads
  Rows <- MCRows
  Inputs <- MCInputs
  VectorSize = 2
  MayBlock = {"copySink"}
SYMMETRY MCSymmetry
SPECIFICATION Spec
INVARIANT UpdateConservation
CHECK_DEADLOCK FALSE

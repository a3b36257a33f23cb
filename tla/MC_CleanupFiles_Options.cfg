\* Every parameter combination: which statements bind, and which are dry runs.
CONSTANTS
  f1 = f1
  f2 = f2
  f3 = f3
  absent = absent
  NoInterval = NoInterval
  Files <- MCFiles
  InitialFiles <- MCInitialFiles
  Invocations <- MCAllInvocations
  MaxTime = 3
  WriteLag = 1
  OrphanOlderThan = 2
  VectorSize = 1
  RemoveMayFail = TRUE
SPECIFICATION Spec
INVARIANT BindReadsOptions

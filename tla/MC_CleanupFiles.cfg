\* Both cleanup functions against concurrent writers and compactions.
CONSTANTS
  f1 = f1
  f2 = f2
  f3 = f3
  absent = absent
  NoInterval = NoInterval
  Files <- MCFiles
  InitialFiles <- MCInitialFiles
  Invocations <- MCInvocations
  MaxTime = 3
  WriteLag = 1
  OrphanOlderThan = 2
  VectorSize = 1
  RemoveMayFail = TRUE
SPECIFICATION Spec
INVARIANT TypeOK
INVARIANT NoDanglingReference
INVARIANT OutputFaithful
PROPERTY CleanupEffects
PROPERTY ImplementsLifecycle
PROPERTY StatementEnds

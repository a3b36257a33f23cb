\* A ClearDeletes between another thread's GetDeleteData and its use.
CONSTANTS
  t1 = t1
  t2 = t2
  f1 = f1
  a1 = a1
  NoThread = NoThread
  NoData = NoData
  Threads <- MCThreads
  Files <- MCFiles
  Artifacts <- MCArtifacts
  Data <- MCData
  Programs <- MCPrograms
SPECIFICATION Spec
CHECK_DEADLOCK FALSE
INVARIANT NoUseAfterFree

\* Two threads adding delete data for one file.
CONSTANTS
  t1 = t1
  t2 = t2
  f1 = f1
  a1 = a1
  NoThread = NoThread
  NoData = NoData
  Threads <- MCThreads
  Files <- MCFiles
  Artifacts <- MCArtifacts
  Data <- MCData
  Programs <- MCTwoAdds
SPECIFICATION Spec
CHECK_DEADLOCK FALSE
INVARIANT DeletesMerged

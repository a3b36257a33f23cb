\* Two threads using the registry, file_map from one of them.
CONSTANTS
  t1 = t1
  t2 = t2
  f1 = f1
  a1 = a1
  NoThread = NoThread
  NoData = NoData
  Threads <- MCThreads
  Files <- MCFiles
  Artifacts <- MCArtifacts
  Data <- MCData
  Programs <- MCPrograms
SPECIFICATION Spec
INVARIANT TypeOK
INVARIANT NoDataRace
CHECK_DEADLOCK FALSE

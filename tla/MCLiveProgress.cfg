\* Progress: a root with a file and the index file, a queue of one message, every batch
\* saved, a failure.
CONSTANTS
  NRoots = 1
  f1 = f1
  f2 = f2
  v1 = v1
  v2 = v2
  Absent = absent
  File = {f1}
  RootOf <- OneFile
  Content = {absent, v1}
  Artifact = {a1}
  Client = {c1}
  BufferSize = 1
  PersistEachBatch = TRUE
  RebuildOnStart = TRUE
  MaxCount = 3
  Bound <- MCBound
  Writes = 2
  Calls = 0
  Starts = 1
  Faults = 1
  Worker = Worker
  Main = Main
  NoOne = NoOne
  NoIndex = NoIndex
  NoFile = NoFile
  Closed = Closed
  Torn = Torn
SPECIFICATION MCFairSpec
PROPERTIES
  ChangesArrive
  StopReturns
  BatchesEnd

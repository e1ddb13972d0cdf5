\* An index file inside its root, whose save writes more files than the queue holds.
CONSTANTS
  NRoots = 1
  f1 = f1
  f2 = f2
  v1 = v1
  v2 = v2
  Absent = absent
  File = {f1, f2}
  RootOf <- OneRoot
  Content = {absent, v1}
  Artifact = {a1, a2}
  Client = {c1}
  BufferSize = 1
  PersistEachBatch = TRUE
  RebuildOnStart = TRUE
  MaxCount = 3
  Bound <- MCBound
  Writes = 0
  Calls = 0
  Starts = 1
  Faults = 0
  Worker = Worker
  Main = Main
  NoOne = NoOne
  NoIndex = NoIndex
  NoFile = NoFile
  Closed = Closed
  Torn = Torn
SPECIFICATION MCFairSpec
PROPERTY
  BatchesEnd

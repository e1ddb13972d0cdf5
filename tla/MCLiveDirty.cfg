\* The documented meaning of dirty, with two roots.
CONSTANTS
  NRoots = 2
  f1 = f1
  f2 = f2
  v1 = v1
  v2 = v2
  Absent = absent
  File = {f1, f2}
  RootOf <- TwoRoots
  Content = {absent, v1, v2}
  Artifact = {}
  Client = {c1}
  BufferSize = 1
  PersistEachBatch = FALSE
  RebuildOnStart = TRUE
  MaxCount = 9
  Bound <- MCBound
  Writes = 2
  Calls = 1
  Starts = 1
  Faults = 1
  Worker = Worker
  Main = Main
  NoOne = NoOne
  NoIndex = NoIndex
  NoFile = NoFile
  Closed = Closed
  Torn = Torn
SPECIFICATION MCSpec
INVARIANT
  UnsavedIsDirty

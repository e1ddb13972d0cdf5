\* Safety: two roots of one file each, a queue of one message, two contents.
CONSTANTS
  NRoots = 2
  f1 = f1
  f2 = f2
  v1 = v1
  v2 = v2
  Absent = absent
  File = {f1, f2}
  RootOf <- TwoRoots
  Content = {absent, v1, v2}
  Artifact = {}
  Client = {c1}
  BufferSize = 1
  PersistEachBatch = TRUE
  RebuildOnStart = TRUE
  MaxCount = 9
  Bound <- MCBound
  Writes = 2
  Calls = 1
  Starts = 2
  Faults = 2
  Worker = Worker
  Main = Main
  NoOne = NoOne
  NoIndex = NoIndex
  NoFile = NoFile
  Closed = Closed
  Torn = Torn
SYMMETRY ContentSymmetry
SPECIFICATION MCSpec
INVARIANTS
  TypeOK
  SearchSeesOneSnapshot
  StaleIsKnown
  UnsavedIsKnown
  CleanStop
PROPERTY
  CleanMeansSaved

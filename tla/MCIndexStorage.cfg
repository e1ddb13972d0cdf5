\* Safety, refinement and liveness: two savers, four saves, four failures of
\* any kind.
CONSTANTS
  Saver = {s1, s2}
  Reader = {r1}
  Suffix = {n1, n2}
  NoSuffix = NoSuffix
  MaxSaves = 4
  Fault = {"lock", "write", "rename", "remove", "path", "crash"}
  MaxFaults = 4
SPECIFICATION FairSpec
INVARIANTS
  OneSaveAtATime
  NameIsGood
  NothingIsLost
PROPERTIES
  OpensGoForward
  StoreSpec
  LockIsReleased
  NameIsTakenAgain

\* Three files of one or two bytes, two workers, two operations, one fault or
\* write of another program; the index holds two entries and three bytes.
CONSTANTS
  Absent = Absent
  None = None
  File <- FilesDef
  Root = {"root", "other"}
  RootOf <- RootOfDef
  Content = {"s", "l"}
  Size <- SizeDef
  MaxSize = 2
  Worker = {w1, w2}
  MaxEntries = 2
  MaxContentBytes = 3
  MaxOps = 2
  MaxFaults = 1
SPECIFICATION FairSpec
INVARIANTS
  TypeOK
  WithinLimits
PROPERTIES
  ResultIsDetermined
  OnlyPlannedChange
  CountsAgree
  OperationReturns

\* Three workers, three files, four sources, four matches, six combinations of
\* options and five of what the sources turn out to be.
CONSTANTS
  Worker = {w1, w2, w3}
  File = {1, 2, 3}
  Source = {1, 2, 3, 4}
  Match = {1, 2, 3, 4}
  Members <- MembersDef
  SourceOf <- SourceOfDef
  Options <- OptionsDef
  Kinds <- KindsDef
SPECIFICATION FairSpec
INVARIANTS
  TypeOK
  HeapsKeepSmallest
  ReportIsDetermined
  QuietIsOneMatch
PROPERTIES
  SearchReturns

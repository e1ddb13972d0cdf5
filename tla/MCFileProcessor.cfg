\* Files of up to eight bytes in every cut; lines of at most two or three bytes, a window
\* of three, buffers of four; up to two matches of a multiline search.
CONSTANTS
  Open = Open
  NoBase = NoBase
  Byte <- ByteDef
  Newline = "nl"
  Return = "cr"
  Bad <- BadDef
  Nul = "nul"
  Nothing = Nothing
  Hir <- HirDef
  Positions <- PositionsDef
  MaxLanguage = 4
  Utf8Mark <- Utf8MarkDef
  LeMark <- LeMarkDef
  BeMark <- BeMarkDef
  Wide <- WideDef
  Window = 3
  MaxMultilineBytes = 4
  MaxArchiveBytes = 3
  MaxSpans = 2
  Texts = {}
  Options <- OptionsDef
  Cases <- CasesDef
SPECIFICATION FileSpec
INVARIANTS
  TypeOK
  ReportIsThatOfSource
  NoFalseNegative
  BinaryIsNotCounted
  SkippedIsSaid
  MultilineBlocksAreLines

\* The documented source offsets, with lines that are never too long.
CONSTANTS
  Open = Open
  NoBase = NoBase
  Byte <- ByteDef
  Newline = "nl"
  Return = "cr"
  Bad <- BadDef
  Nul = "nul"
  Nothing = Nothing
  Hir <- HirDef
  Positions <- PositionsDef
  MaxLanguage = 4
  Utf8Mark <- Utf8MarkDef
  LeMark <- LeMarkDef
  BeMark <- BeMarkDef
  Wide <- WideDef
  Window = 3
  MaxMultilineBytes = 4
  MaxArchiveBytes = 3
  MaxSpans = 2
  Texts = {}
  Options <- UnlimitedDef
  Cases <- LossyCases
SPECIFICATION FileSpec
INVARIANT
  SourceOffsetIsExact

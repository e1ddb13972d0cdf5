\* The documented bound of a line, over texts of up to five bytes.
CONSTANTS
  Open = Open
  Byte = {"a", "b", "nl", "cr", "bad"}
  Newline = "nl"
  Return = "cr"
  Bad = {"bad"}
  Options <- FewOptions
  Texts <- ShortTexts
SPECIFICATION Spec
INVARIANT
  LineBufferIsBounded

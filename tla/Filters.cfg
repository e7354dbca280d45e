CONSTANTS
  Byte <- Bytes
  Printing <- Letters3
  TAB = "TAB"
  NL = "NL"
  NUL = "NUL"
  Width = 3
  Category = 1
  Size = 16
  Input <- Lines
  MaxLines = 3
  Codes <- GicsCodes
  Names = {"n", "d"}
  Langs = {"en", "fr"}
  None = ""
  Parent <- Prefix
  Rank <- RankOf
  Tables <- GicsTables
  YuckLines = 5
  Careful = TRUE
SPECIFICATION Spec
CHECK_DEADLOCK FALSE
INVARIANTS OwnLine MeldIsMeet ReadsBack OneStatement Hierarchy
PROPERTIES ReadsDocument

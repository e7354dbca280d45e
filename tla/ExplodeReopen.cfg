CONSTANTS
  Char <- Chars
  NUL = "NUL"
  MAX_GN = 5
  NMRU = 2
  ClearRows = 2
  MaxLines = 4
  MaxInputs = 1
  MaxFails = 1
  Label <- ThreeFiles
  Spill <- GccLayout
SPECIFICATION Spec
INVARIANTS OneStreamPerFile

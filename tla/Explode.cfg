CONSTANTS
  Char <- Chars
  NUL = "NUL"
  MAX_GN = 5
  NMRU = 2
  ClearRows = 2
  MaxLines = 4
  MaxInputs = 2
  MaxFails = 2
  Label <- Nested
  Spill <- AnyLayout
SPECIFICATION FairSpec
INVARIANTS Streams AtRest NoMisfile Accounted TicksDistinct
PROPERTIES ImplementsPromise ReachesDisk
